---- MODULE Spec2Model ----
(***************************************************************************)
(* A model of the focus containment engine of seigi (seigi_focus): the     *)
(* candidate locator, the trap state machine, the listeners it registers   *)
(* on its scope, the dispatch of document events to those listeners and    *)
(* the zero-delay timers through which every focus change is made.         *)
(***************************************************************************)
EXTENDS Integers, Sequences, FiniteSets, TLC

\* ------------------------------------------------------------------ bounds

\* Timers (schedule_focus callbacks) that may be pending at once.
MaxQueue == 2
\* Live FocusTrap handles (the first of each trap and its clones).
MaxHandles == 2

\* The number of toasts that are added to the toaster.
MaxToasts == 2

\* The number of subscriptions that are made.
MaxSubscribers == 2

\* The callbacks that run, at most, until the queue of a keypress is empty.
MaxSettle == 8

None == "none"

\* ------------------------------------------------------------ the document

(* The document tree, in document order (the order of a depth-first        *)
(* subtree query):                                                         *)
(*   body                                                                  *)
(*     y                 a control before the form                         *)
(*     P                 the container two traps may share as scope        *)
(*       T1 [ a b ]      a target                                          *)
(*       s               an SVG element with a tabindex (no HtmlElement)   *)
(*       T2 [ c d ]      a target                                          *)
(*     z                 a control after the form                          *)
DocOrder == <<"body", "y", "P", "T1", "a", "b", "s", "T2", "c", "d", "z">>

Nodes == {DocOrder[i] : i \in 1..Len(DocOrder)}

Leaves == {"y", "a", "b", "s", "c", "d", "z"}

ParentOf(n) ==
    CASE n \in {"y", "P", "z"} -> "body"
      [] n \in {"T1", "s", "T2"} -> "P"
      [] n \in {"a", "b"} -> "T1"
      [] n \in {"c", "d"} -> "T2"
      [] OTHER -> None

\* Node.contains: inclusive, a node contains itself.
RECURSIVE Contains(_, _)
Contains(anc, n) ==
    IF n = None THEN FALSE
    ELSE IF n = anc THEN TRUE
    ELSE Contains(anc, ParentOf(n))

\* Element profiles: what the code reads of an element.
\* has_tabindex: the tabindex attribute is present; tabindex: its value.
Div == [tag |-> "div", html |-> TRUE, has_tabindex |-> FALSE, tabindex |-> 0,
        disabled |-> None, inert |-> None, type |-> None]
Button == [Div EXCEPT !.tag = "button"]
\* A button taken out of the tab order: focusable, not tabbable.
ButtonNeg == [Button EXCEPT !.has_tabindex = TRUE, !.tabindex = -1]
ButtonDisabled == [Button EXCEPT !.disabled = "true"]
\* <button disabled>: the attribute is present, its value is empty.
ButtonDisabledEmpty == [Button EXCEPT !.disabled = ""]
ButtonInert == [Button EXCEPT !.inert = "true"]
\* <button inert>: the attribute is present, its value is empty.
ButtonInertEmpty == [Button EXCEPT !.inert = ""]
DivInert == [Div EXCEPT !.inert = "true"]
\* <input type="hidden">
InputHidden == [Div EXCEPT !.tag = "input", !.type = "hidden"]
\* <svg tabindex="0">: focusable in the browser, not an HtmlElement.
SvgTab == [Div EXCEPT !.tag = "svg", !.html = FALSE, !.has_tabindex = TRUE]

\* The document with the leaves of `neg` carrying tabindex="-1".
Document(neg) ==
    [n \in Nodes |->
        IF n = "s" THEN SvgTab
        ELSE IF n \in neg THEN ButtonNeg
        ELSE IF n \in Leaves THEN Button
        ELSE Div]

\* The documents the candidate locator is applied to: the plain document
\* with one or two nodes replaced.
LocatorDocuments ==
    LET plain == Document({})
    IN { plain,
         [plain EXCEPT !["a"] = ButtonInert],
         [plain EXCEPT !["a"] = ButtonInertEmpty],
         [plain EXCEPT !["a"] = ButtonDisabled],
         [plain EXCEPT !["a"] = ButtonDisabledEmpty],
         [plain EXCEPT !["a"] = ButtonDisabled, !["b"] = ButtonInert],
         [plain EXCEPT !["a"] = InputHidden],
         [plain EXCEPT !["T1"] = DivInert],
         [plain EXCEPT !["P"] = DivInert] }

VARIABLES
    dom,            \* Nodes -> profile; fixed after Init
    options,        \* trap -> FocusTrapOptions
    is_activated,   \* trap -> State.is_activated
    last_focus,     \* trap -> State.last_focus
    return_element, \* trap -> State.return_element
    handles,        \* trap -> number of live FocusTrap clones (Rc strong count)
    listeners,      \* event listeners registered on scopes, in registration order
    timers,         \* pending schedule_focus timeouts, FIFO
    focused,        \* document.activeElement
    ev,             \* the event being dispatched, or NoEvent
    hooks,          \* trap -> calls of on_activate minus calls of on_deactivate
    form,           \* the multi-stage form (Inner) and the attributes it sets
    builders,       \* trap -> the FocusTrapOptionsBuilder it is made from
    toaster,        \* the Toaster: its State, its Observer, its pending timeouts
    locks           \* the calls in progress on the traps and the Mutexes they hold

vars == <<form, locks, toaster, builders, dom, options, is_activated, last_focus, return_element, handles,
          listeners, timers, focused, ev, hooks>>

\* ------------------------------------------------------- candidate locator

\* Element::tag_name of an HTML element in an HTML document is upper case.
TagName(e) ==
    IF dom[e].html
    THEN CASE dom[e].tag = "input" -> "INPUT"
           [] dom[e].tag = "button" -> "BUTTON"
           [] dom[e].tag = "div" -> "DIV"
           [] OTHER -> dom[e].tag
    ELSE dom[e].tag

\* HtmlElement::tab_index: the attribute, or the element's default.
TabIndex(e) ==
    IF dom[e].has_tabindex THEN dom[e].tabindex
    ELSE IF dom[e].tag \in {"button", "input"} THEN 0
    ELSE -1

\* CANDIDATE_SELECTOR, for the tags of the model.
MatchesSelector(e) ==
    /\ dom[e].inert = None
    /\ \/ dom[e].tag \in {"input", "button"}
       \/ dom[e].has_tabindex

is_disabled(e) == dom[e].disabled = "true"

is_inert(e) == dom[e].inert = "true"

\* The loop of has_inert_ancestor: it tests `element` on every round and
\* walks `current` up to the root.
RECURSIVE InertLoop(_, _)
InertLoop(element, current) ==
    IF is_inert(element) THEN TRUE
    ELSE IF ParentOf(current) # None THEN InertLoop(element, ParentOf(current))
    ELSE FALSE

has_inert_ancestor(e) ==
    IF ParentOf(e) = None THEN FALSE ELSE InertLoop(e, ParentOf(e))

is_hidden_input(e) == TagName(e) = "input" /\ dom[e].type = "hidden"

\* is_focusable without the test of is_disabled.
is_focusable_ignoring_disabled(e) ==
    ~(is_inert(e) \/ has_inert_ancestor(e) \/ is_hidden_input(e))

is_focusable(e) ==
    ~(is_disabled(e) \/ is_inert(e) \/ has_inert_ancestor(e) \/ is_hidden_input(e))

is_tabbable(e) == ~(TabIndex(e) < 0 \/ ~is_focusable(e))

\* container.query_selector_all(CANDIDATE_SELECTOR): the descendants of the
\* container that match, in document order.
QuerySelectorAll(container) ==
    SelectSeq(DocOrder, LAMBDA n : n # container /\ Contains(container, n)
                                     /\ MatchesSelector(n))

\* candidates(container, filter): elements that are no HtmlElement are
\* skipped. The filter is a function from the elements to BOOLEAN.
candidates(container, filter) ==
    SelectSeq(QuerySelectorAll(container), LAMBDA v : dom[v].html /\ filter[v])

\* first_candidate without the filter: the first HtmlElement of the query.
first_candidate_unfiltered(container, filter) ==
    LET elements == QuerySelectorAll(container)
        passing == {i \in 1..Len(elements) : dom[elements[i]].html}
    IN IF passing = {} THEN None
       ELSE elements[CHOOSE i \in passing : \A j \in passing : i <= j]

\* first_candidate that keeps scanning: the last element that passes.
first_candidate_last(container, filter) ==
    LET elements == QuerySelectorAll(container)
        passing == {i \in 1..Len(elements) :
                        dom[elements[i]].html /\ filter[elements[i]]}
    IN IF passing = {} THEN None
       ELSE elements[CHOOSE i \in passing : \A j \in passing : i >= j]

\* first_candidate: the scan stops at the first element that passes.
first_candidate(container, filter) ==
    LET elements == QuerySelectorAll(container)
        passing == {i \in 1..Len(elements) :
                        dom[elements[i]].html /\ filter[elements[i]]}
    IN IF passing = {} THEN None
       ELSE elements[CHOOSE i \in passing : \A j \in passing : i <= j]

tab_candidates(container) ==
    candidates(container, [v \in Nodes |-> is_tabbable(v)])

focus_candidates(container) ==
    candidates(container, [v \in Nodes |-> is_focusable(v)])

first_focus_candidate(container) ==
    first_candidate(container, [v \in Nodes |-> is_focusable(v)])

first_tab_candidate(container) ==
    first_candidate(container, [v \in Nodes |-> is_tabbable(v)])

\* ------------------------------------------------------------ trap options

Traps == {"t1", "t2"}

\* InitialFocus: Selector carries a selector, Element the element, Function
\* the element the function returns.
InitialFocusNone == [kind |-> "None", arg |-> None]
InitialFocusAuto == [kind |-> "Auto", arg |-> None]
InitialFocusSelector(selector) == [kind |-> "Selector", arg |-> selector]
InitialFocusElement(element) == [kind |-> "Element", arg |-> element]
InitialFocusFunction(element) == [kind |-> "Function", arg |-> element]

\* FocusTrapOptionsBuilder::default followed by target(): the builder's
\* defaults (hooks: none set).
DefaultOptions(target) ==
    [return_focus |-> TRUE,
     initial_focus |-> InitialFocusAuto,
     deactivate_on_escape |-> FALSE,
     on_activate |-> FALSE,
     on_deactivate |-> FALSE,
     scope |-> "body",
     target |-> target]

\* FocusTrapOptionsBuilder::hooks with both hooks set.
Hooked(o) == [o EXCEPT !.on_activate = TRUE, !.on_deactivate = TRUE]

\* The options FormBuilder::build gives the trap of the stage `stage` of a
\* form whose container is `container`.
StageOptions(container, stage) ==
    [DefaultOptions(stage) EXCEPT !.return_focus = FALSE,
                                  !.deactivate_on_escape = FALSE,
                                  !.scope = container]

\* document().query_selector(selector), for tag selectors: the first element
\* of the document with that tag.
QuerySelector(selector) ==
    LET hits == {i \in 1..Len(DocOrder) : dom[DocOrder[i]].tag = selector}
    IN IF hits = {} THEN None
       ELSE DocOrder[CHOOSE i \in hits : \A j \in hits : i <= j]

\* ------------------------------------------------------- events, listeners

\* The listeners add_listeners registers, in its order: <<type, capture>>.
ListenerKinds ==
    << <<"focusin", TRUE>>, <<"mousedown", TRUE>>, <<"touchstart", TRUE>>,
       <<"click", TRUE>>, <<"keydown", TRUE>>, <<"keydown", FALSE>> >>

Listener(t, kind) == [trap |-> t, type |-> kind[1], capture |-> kind[2]]

NoEvent == [type |-> None, target |-> None, key |-> None, shift |-> FALSE,
            prevented |-> FALSE, stopped |-> FALSE, pending |-> <<>>]

\* The nodes from the root down to n.
RECURSIVE PathTo(_)
PathTo(n) == IF n = None THEN <<>> ELSE Append(PathTo(ParentOf(n)), n)

Reverse(seq) == [i \in 1..Len(seq) |-> seq[Len(seq) + 1 - i]]

\* The listeners as they would be found had add_listeners registered them on
\* the document body instead of the scope.
ListenersOnBody(node, type, capture) ==
    SelectSeq(listeners, LAMBDA l : /\ node = "body"
                                    /\ l.type = type
                                    /\ l.capture = capture)

\* The listeners of one type and phase registered on `node`, in registration
\* order.
ListenersOn(node, type, capture) ==
    SelectSeq(listeners, LAMBDA l : /\ options[l.trap].scope = node
                                    /\ l.type = type
                                    /\ l.capture = capture)

RECURSIVE AlongPath(_, _, _)
AlongPath(path, type, capture) ==
    IF path = <<>> THEN <<>>
    ELSE ListenersOn(Head(path), type, capture)
            \o AlongPath(Tail(path), type, capture)

\* The listeners an event of `type` at `target` reaches: the capture phase
\* from the root down, then the bubble phase from the target up.
DispatchPath(type, target) ==
    AlongPath(PathTo(target), type, TRUE)
        \o AlongPath(Reverse(PathTo(target)), type, FALSE)

\* The browser begins the dispatch of an event.
NewEvent(type, target, key, shift) ==
    [type |-> type, target |-> target, key |-> key, shift |-> shift,
     prevented |-> FALSE, stopped |-> FALSE,
     pending |-> DispatchPath(type, target)]

\* target(event): the event's target as an HtmlElement, if it is one.
target(event) == IF dom[event.target].html THEN event.target ELSE None

\* active_element(): document.activeElement as an HtmlElement, if it is one.
active_element == IF dom[focused].html THEN focused ELSE None

\* schedule_focus putting the new callback ahead of the pending ones.
schedule_focus_first(queue, element) == <<element>> \o queue

\* schedule_focus: a zero-delay timeout that will focus the element.
schedule_focus(queue, element) == Append(queue, element)

\* What HtmlElement::focus can move the focus to.
BrowserFocusable(e) ==
    /\ e \in Leaves
    /\ dom[e].disabled = None
    /\ \A n \in Nodes : Contains(n, e) => dom[n].inert = None
    /\ dom[e].type # "hidden"
    /\ dom[e].tag \in {"button", "input"} \/ dom[e].has_tabindex

\* ------------------------------------------------------------------- State

add_listeners(registered, t) ==
    LET RECURSIVE Add(_, _)
        Add(reg, i) ==
            IF i > Len(ListenerKinds) THEN reg
            ELSE LET l == Listener(t, ListenerKinds[i])
                 IN Add(IF \E k \in 1..Len(reg) : reg[k] = l
                        THEN reg ELSE Append(reg, l), i + 1)
    IN Add(registered, 1)

\* The listeners remove_listeners removes: <<type, capture>>.
RemovedKinds ==
    { <<"focusin", TRUE>>, <<"mousedown", TRUE>>, <<"touchstart", TRUE>>,
      <<"click", TRUE>>, <<"keydown", TRUE>>, <<"keydown", FALSE>> }

\* remove_listeners without its last call: the bubble-phase keydown listener
\* stays behind.
remove_capturing_listeners(registered, t) ==
    SelectSeq(registered, LAMBDA l : ~(l.trap = t /\ l.capture))

remove_listeners(registered, t) ==
    SelectSeq(registered,
              LAMBDA l : ~(l.trap = t /\ <<l.type, l.capture>> \in RemovedKinds))

\* State::initial_focus: the timer queue after it.
initial_focus(queue, t) ==
    LET o == options[t]
        kind == o.initial_focus.kind
        element ==
            CASE kind = "None" -> None
              [] kind = "Auto" -> first_focus_candidate(o.target)
              [] kind = "Selector" ->
                    LET found == QuerySelector(o.initial_focus.arg)
                    IN IF found # None /\ dom[found].html THEN found ELSE None
              [] kind = "Element" -> o.initial_focus.arg
              [] kind = "Function" -> o.initial_focus.arg
    IN IF element = None THEN queue ELSE schedule_focus(queue, element)

\* State::return_focus: the timer queue after it.
return_focus(queue, element) ==
    IF element # None THEN schedule_focus(queue, element) ELSE queue

\* An activation that calls the hook twice.
on_activate_twice(calls, t) ==
    IF options[t].on_activate THEN [calls EXCEPT ![t] = @ + 2] ELSE calls

\* A hook of trap t is called, if it is set.
on_activate(calls, t) ==
    IF options[t].on_activate THEN [calls EXCEPT ![t] = @ + 1] ELSE calls

\* A deactivation that does not call the hook.
on_deactivate_skipped(calls, t) == calls

on_deactivate(calls, t) ==
    IF options[t].on_deactivate THEN [calls EXCEPT ![t] = @ - 1] ELSE calls

\* What the operations of a trap read and write: the State of every trap,
\* the listeners on the scopes and the timers.
World ==
    [is_activated |-> is_activated, last_focus |-> last_focus,
     return_element |-> return_element, listeners |-> listeners,
     timers |-> timers, hooks |-> hooks]

Becomes(w) ==
    /\ is_activated' = w.is_activated
    /\ last_focus' = w.last_focus
    /\ return_element' = w.return_element
    /\ listeners' = w.listeners
    /\ timers' = w.timers
    /\ hooks' = w.hooks

\* activate without its early return.
activate_unguarded(w, t) ==
    [w EXCEPT !.is_activated[t] = TRUE,
              !.return_element[t] = active_element,
              !.listeners = add_listeners(@, t),
              !.timers = initial_focus(@, t),
              !.hooks = on_activate(@, t)]

\* State::activate of trap t in w.
activate(w, t) ==
    IF w.is_activated[t] THEN w
    ELSE [w EXCEPT !.is_activated[t] = TRUE,
                   !.return_element[t] = active_element,
                   !.listeners = add_listeners(@, t),
                   !.timers = initial_focus(@, t),
                   !.hooks = on_activate(@, t)]

\* deactivate without its early return.
deactivate_unguarded(w, t) ==
    [w EXCEPT !.is_activated[t] = FALSE,
              !.listeners = remove_listeners(@, t),
              !.timers = return_focus(@, w.return_element[t]),
              !.hooks = on_deactivate(@, t)]

\* deactivate that forgets the element last focused inside the target.
deactivate_forgetting(w, t) ==
    IF ~w.is_activated[t] THEN w
    ELSE [w EXCEPT !.is_activated[t] = FALSE,
                   !.last_focus[t] = None,
                   !.listeners = remove_listeners(@, t),
                   !.timers = return_focus(@, w.return_element[t]),
                   !.hooks = on_deactivate(@, t)]

\* State::deactivate of trap t in w.
deactivate(w, t) ==
    IF ~w.is_activated[t] THEN w
    ELSE [w EXCEPT !.is_activated[t] = FALSE,
                   !.listeners = remove_listeners(@, t),
                   !.timers = return_focus(@, w.return_element[t]),
                   !.hooks = on_deactivate(@, t)]

\* The handler the dispatch calls next, and the event once it has returned.
Current == Head(ev.pending)

Delivering(t, type) ==
    /\ ev.pending # <<>>
    /\ Current.trap = t
    /\ Current.type = type
    /\ \E k \in 1..Len(listeners) : listeners[k] = Current

Advance(event) ==
    [event EXCEPT !.pending = IF event.stopped THEN <<>> ELSE Tail(@)]

prevent_default(event) == [event EXCEPT !.prevented = TRUE]

stop_immediate_propagation(event) == [event EXCEPT !.stopped = TRUE]

\* handle_focus_in recording the target before it tests where it is.
HandleFocusInRecording(t) ==
    /\ Delivering(t, "focusin")
    /\ LET tgt == target(ev)
       IN IF tgt = None
          THEN /\ ev' = Advance(ev)
               /\ UNCHANGED <<last_focus, timers>>
          ELSE /\ last_focus' = [last_focus EXCEPT ![t] = tgt]
               /\ IF Contains(options[t].target, tgt)
                  THEN /\ ev' = Advance(ev)
                       /\ UNCHANGED timers
                  ELSE /\ ev' = Advance(stop_immediate_propagation(ev))
                       /\ timers' = IF last_focus[t] # None
                                    THEN schedule_focus(timers, last_focus[t])
                                    ELSE timers
    /\ UNCHANGED <<form, locks, toaster, builders, dom, options, is_activated, return_element, handles,
                   listeners, focused, hooks>>

\* handle_focus_in calling last_focus.focus() itself instead of scheduling it.
HandleFocusInSync(t) ==
    /\ Delivering(t, "focusin")
    /\ LET tgt == target(ev)
       IN IF tgt = None
          THEN /\ ev' = Advance(ev)
               /\ UNCHANGED <<last_focus, focused>>
          ELSE IF Contains(options[t].target, tgt)
          THEN /\ last_focus' = [last_focus EXCEPT ![t] = tgt]
               /\ ev' = Advance(ev)
               /\ UNCHANGED focused
          ELSE /\ ev' = Advance(stop_immediate_propagation(ev))
               /\ focused' = IF last_focus[t] # None THEN last_focus[t] ELSE focused
               /\ UNCHANGED last_focus
    /\ UNCHANGED <<form, locks, toaster, builders, dom, options, is_activated, return_element, handles,
                   listeners, timers, hooks>>

\* State::handle_focus_in, called by the focusin listener of trap t.
HandleFocusIn(t) ==
    /\ Delivering(t, "focusin")
    /\ LET tgt == target(ev)
       IN IF tgt = None
          THEN /\ ev' = Advance(ev)
               /\ UNCHANGED <<last_focus, timers>>
          ELSE IF Contains(options[t].target, tgt)
          THEN /\ last_focus' = [last_focus EXCEPT ![t] = tgt]
               /\ ev' = Advance(ev)
               /\ UNCHANGED timers
          ELSE /\ ev' = Advance(stop_immediate_propagation(ev))
               /\ timers' = IF last_focus[t] # None
                            THEN schedule_focus(timers, last_focus[t])
                            ELSE timers
               /\ UNCHANGED last_focus
    /\ UNCHANGED <<form, locks, toaster, builders, dom, options, is_activated, return_element, handles,
                   listeners, focused, hooks>>

\* State::handle_pointer_down, called by the mousedown and touchstart
\* listeners of trap t.
HandlePointerDown(t) ==
    /\ \/ Delivering(t, "mousedown")
       \/ Delivering(t, "touchstart")
    /\ LET tgt == target(ev)
       IN IF tgt # None /\ ~Contains(options[t].target, tgt)
          THEN ev' = Advance(prevent_default(ev))
          ELSE ev' = Advance(ev)
    /\ UNCHANGED <<form, locks, toaster, builders, dom, options, is_activated, last_focus, return_element,
                   handles, listeners, timers, focused, hooks>>

\* State::handle_click, called by the click listener of trap t.
HandleClick(t) ==
    /\ Delivering(t, "click")
    /\ LET tgt == target(ev)
       IN IF tgt # None /\ ~Contains(options[t].target, tgt)
          THEN ev' = Advance(stop_immediate_propagation(prevent_default(ev)))
          ELSE ev' = Advance(ev)
    /\ UNCHANGED <<form, locks, toaster, builders, dom, options, is_activated, last_focus, return_element,
                   handles, listeners, timers, focused, hooks>>

\* Iterator::position(..).unwrap(): the 0-based index of the element.
Position(seq, e) ==
    (CHOOSE i \in 1..Len(seq) : seq[i] = e /\ \A j \in 1..(i - 1) : seq[j] # e) - 1

\* slice.get(index): 0-based, None when out of range.
Get(seq, index) ==
    IF index >= 0 /\ index < Len(seq) THEN seq[index + 1] ELSE None

Last(seq) == seq[Len(seq)]

\* The candidates of the target alone: a ring that never leaves the target.
target_tab_candidates(t) == tab_candidates(options[t].target)

\* The candidates without the scope filter: every tabbable element of the
\* document.
all_tab_candidates(t) == candidates("body", [v \in Nodes |-> is_tabbable(v)])

\* The tabbable elements of the document that are outside the scope of trap
\* t or inside its target.
body_tab_candidates(t) ==
    candidates("body",
               [v \in Nodes |-> /\ is_tabbable(v)
                                /\ \/ ~Contains(options[t].scope, v)
                                   \/ Contains(options[t].target, v)])

\* The Tab branch without the fallbacks of unwrap_or_else and without the
\* position == 0 case: past either end nothing is scheduled.
TabOutcomeNoWrap(t, tgt, is_backward) ==
    LET body_candidates == body_tab_candidates(t)
        container_tab_candidates == tab_candidates(options[t].target)
    IN IF container_tab_candidates = <<>>
       THEN [prevent |-> TRUE, focus |-> None]
       ELSE IF is_backward
       THEN IF tgt = Head(container_tab_candidates)
            THEN [prevent |-> TRUE,
                  focus |-> Get(body_candidates, Position(body_candidates, tgt) - 1)]
            ELSE [prevent |-> FALSE, focus |-> None]
       ELSE IF tgt = Last(container_tab_candidates)
            THEN [prevent |-> TRUE,
                  focus |-> Get(body_candidates, Position(body_candidates, tgt) + 1)]
            ELSE [prevent |-> FALSE, focus |-> None]

\* The Tab branch returning from an empty candidate list without
\* prevent_default.
TabOutcomeUnpinned(t, tgt, is_backward) ==
    LET container_tab_candidates == tab_candidates(options[t].target)
    IN IF container_tab_candidates = <<>>
       THEN [prevent |-> FALSE, focus |-> None]
       ELSE IF tgt = (IF is_backward THEN Head(container_tab_candidates)
                      ELSE Last(container_tab_candidates))
       THEN [prevent |-> TRUE,
             focus |-> IF is_backward THEN Last(container_tab_candidates)
                       ELSE Head(container_tab_candidates)]
       ELSE [prevent |-> FALSE, focus |-> None]

\* The Tab branch preventing the default of every Tab whose target is not at
\* the end the Tab leaves by.
TabOutcomeHeld(t, tgt, is_backward) ==
    LET body_candidates == body_tab_candidates(t)
        container_tab_candidates == tab_candidates(options[t].target)
    IN IF container_tab_candidates = <<>>
       THEN [prevent |-> TRUE, focus |-> None]
       ELSE IF is_backward
       THEN IF tgt = Head(container_tab_candidates)
            THEN LET position == Position(body_candidates, tgt)
                 IN [prevent |-> TRUE,
                     focus |-> IF position = 0
                               THEN Last(body_candidates)
                               ELSE IF Get(body_candidates, position - 1) # None
                               THEN Get(body_candidates, position - 1)
                               ELSE Last(body_candidates)]
            ELSE [prevent |-> TRUE, focus |-> None]
       ELSE IF tgt = Last(container_tab_candidates)
            THEN LET position == Position(body_candidates, tgt)
                 IN [prevent |-> TRUE,
                     focus |-> IF position = Len(body_candidates)
                               THEN Head(container_tab_candidates)
                               ELSE IF Get(body_candidates, position + 1) # None
                               THEN Get(body_candidates, position + 1)
                               ELSE Head(body_candidates)]
            ELSE [prevent |-> TRUE, focus |-> None]

\* The Tab branch of State::handle_key_down:
\* [prevent: prevent_default is called, focus: the element scheduled or None].
TabOutcome(t, tgt, is_backward) ==
    LET body_candidates == body_tab_candidates(t)
        container_tab_candidates == tab_candidates(options[t].target)
    IN IF container_tab_candidates = <<>>
       THEN [prevent |-> TRUE, focus |-> None]
       ELSE IF is_backward
       THEN IF tgt = Head(container_tab_candidates)
            THEN LET position == Position(body_candidates, tgt)
                 IN [prevent |-> TRUE,
                     focus |-> IF position = 0
                               THEN Last(body_candidates)
                               ELSE IF Get(body_candidates, position - 1) # None
                               THEN Get(body_candidates, position - 1)
                               ELSE Last(body_candidates)]
            ELSE [prevent |-> FALSE, focus |-> None]
       ELSE IF tgt = Last(container_tab_candidates)
            THEN LET position == Position(body_candidates, tgt)
                 IN [prevent |-> TRUE,
                     focus |-> IF position = Len(body_candidates)
                               THEN Head(container_tab_candidates)
                               ELSE IF Get(body_candidates, position + 1) # None
                               THEN Get(body_candidates, position + 1)
                               ELSE Head(body_candidates)]
            ELSE [prevent |-> FALSE, focus |-> None]

\* handle_key_down taking the bubble-phase delivery of a Tab for a Tab in the
\* other direction.
HandleKeyDownAlternating(t) ==
    /\ Delivering(t, "keydown")
    /\ IF ev.key = "Tab"
       THEN LET outcome == TabOutcome(t, ev.target, IF Current.capture THEN ev.shift ELSE ~ev.shift)
            IN /\ timers' = IF outcome.focus # None
                            THEN schedule_focus(timers, outcome.focus)
                            ELSE timers
               /\ ev' = Advance(IF outcome.prevent THEN prevent_default(ev) ELSE ev)
               /\ UNCHANGED <<is_activated, last_focus, return_element,
                              listeners, hooks>>
       ELSE IF ev.key = "Escape" /\ options[t].deactivate_on_escape
       THEN /\ ev' = Advance(prevent_default(ev))
            /\ Becomes(deactivate(World, t))
       ELSE /\ ev' = Advance(ev)
            /\ UNCHANGED <<is_activated, last_focus, return_element,
                           listeners, timers, hooks>>
    /\ UNCHANGED <<form, locks, toaster, builders, dom, options, handles, focused>>

\* State::handle_key_down, called by the capture-phase and by the
\* bubble-phase keydown listener of trap t.
HandleKeyDown(t) ==
    /\ Delivering(t, "keydown")
    /\ IF ev.key = "Tab"
       THEN LET outcome == TabOutcome(t, ev.target, ev.shift)
            IN /\ timers' = IF outcome.focus # None
                            THEN schedule_focus(timers, outcome.focus)
                            ELSE timers
               /\ ev' = Advance(IF outcome.prevent THEN prevent_default(ev) ELSE ev)
               /\ UNCHANGED <<is_activated, last_focus, return_element,
                              listeners, hooks>>
       ELSE IF ev.key = "Escape" /\ options[t].deactivate_on_escape
       THEN /\ ev' = Advance(prevent_default(ev))
            /\ Becomes(deactivate(World, t))
       ELSE /\ ev' = Advance(ev)
            /\ UNCHANGED <<is_activated, last_focus, return_element,
                           listeners, timers, hooks>>
    /\ UNCHANGED <<form, locks, toaster, builders, dom, options, handles, focused>>

\* A listener removed while the event was being dispatched is not called.
SkipRemoved ==
    /\ ev.pending # <<>>
    /\ ~\E k \in 1..Len(listeners) : listeners[k] = Current
    /\ ev' = [ev EXCEPT !.pending = Tail(@)]
    /\ UNCHANGED <<form, locks, toaster, builders, dom, options, is_activated, last_focus, return_element,
                   handles, listeners, timers, focused, hooks>>

\* The dispatch is over: every listener on the path has been called, or one
\* of them stopped the propagation.
EndDispatch ==
    /\ ev # NoEvent
    /\ ev.pending = <<>>
    /\ ev' = NoEvent
    /\ UNCHANGED <<form, locks, toaster, builders, dom, options, is_activated, last_focus, return_element,
                   handles, listeners, timers, focused, hooks>>

\* ------------------------------------------------------------- the browser

Idle == ev = NoEvent

\* The next event comes once the pending zero-delay timers have fired.
Settled == Idle /\ timers = <<>>

\* The elements pointer events are aimed at: inside T1, inside T2, the SVG
\* element.
PointerTargets == {"a", "c", "s"}

\* The element the pointer goes down on while the form is used.
FormPointerTargets == {"c"}

\* The keys that are pressed: Tab, Shift+Tab and Escape.
Keys == {<<"Tab", FALSE>>, <<"Tab", TRUE>>, <<"Escape", FALSE>>}

\* The browser dispatches an event; the handlers it reaches may each set one
\* timer. An event that reaches no listener leaves nothing to observe.
Dispatch(type, tgt, key, shift) ==
    LET event == NewEvent(type, tgt, key, shift)
    IN /\ Len(timers) + Len(event.pending) <= MaxQueue
       /\ ev' = IF event.pending = <<>> THEN NoEvent ELSE event

\* The focus moves to e: by the user (pointer, sequential navigation) or by a
\* call of e.focus() of the application.
FocusMoves(e) ==
    /\ Settled
    /\ BrowserFocusable(e)
    /\ e # focused
    /\ focused' = e
    /\ Dispatch("focusin", e, None, FALSE)
    /\ UNCHANGED <<form, locks, toaster, builders, dom, options, is_activated, last_focus, return_element,
                   handles, listeners, timers, hooks>>

PointerDown(type, tgt) ==
    /\ Settled
    /\ type \in {"mousedown", "touchstart"}
    /\ DispatchPath(type, tgt) # <<>>
    /\ Dispatch(type, tgt, None, FALSE)
    /\ UNCHANGED <<form, locks, toaster, builders, dom, options, is_activated, last_focus, return_element,
                   handles, listeners, timers, focused, hooks>>

Click(tgt) ==
    /\ Settled
    /\ DispatchPath("click", tgt) # <<>>
    /\ Dispatch("click", tgt, None, FALSE)
    /\ UNCHANGED <<form, locks, toaster, builders, dom, options, is_activated, last_focus, return_element,
                   handles, listeners, timers, focused, hooks>>

\* A key is pressed: the keydown goes to the focused element.
KeyDown(key, shift) ==
    /\ Settled
    /\ DispatchPath("keydown", focused) # <<>>
    /\ Dispatch("keydown", focused, key, shift)
    /\ UNCHANGED <<form, locks, toaster, builders, dom, options, is_activated, last_focus, return_element,
                   handles, listeners, timers, focused, hooks>>

\* A pointer event that was already waiting in the event loop when a focus
\* callback was scheduled: it is dispatched while the callback is pending.
EarlyPointerDown(type, tgt) ==
    /\ Idle
    /\ timers # <<>>
    /\ type \in {"mousedown", "touchstart"}
    /\ DispatchPath(type, tgt) # <<>>
    /\ Dispatch(type, tgt, None, FALSE)
    /\ UNCHANGED <<form, locks, toaster, builders, dom, options, is_activated, last_focus, return_element,
                   handles, listeners, timers, focused, hooks>>

EarlyClick(tgt) ==
    /\ Idle
    /\ timers # <<>>
    /\ DispatchPath("click", tgt) # <<>>
    /\ Dispatch("click", tgt, None, FALSE)
    /\ UNCHANGED <<form, locks, toaster, builders, dom, options, is_activated, last_focus, return_element,
                   handles, listeners, timers, focused, hooks>>

\* A timeout that is dropped instead of fired when its trap is no longer
\* activated.
RunTimerCancelling ==
    /\ Idle
    /\ timers # <<>>
    /\ LET element == Head(timers)
       IN IF /\ BrowserFocusable(element)
             /\ element # focused
             /\ \E t \in Traps : is_activated[t]
          THEN /\ focused' = element
               /\ ev' = LET event == NewEvent("focusin", element, None, FALSE)
                        IN IF event.pending = <<>> THEN NoEvent ELSE event
               /\ timers' = Tail(timers)
          ELSE /\ UNCHANGED <<focused, ev>>
               /\ timers' = IF \E t \in Traps : is_activated[t] THEN Tail(timers) ELSE <<>>
    /\ UNCHANGED <<form, locks, toaster, builders, dom, options, is_activated, last_focus, return_element,
                   handles, listeners, hooks>>

\* The oldest timeout of schedule_focus fires: target.focus(), whose failure
\* is ignored. A focus that moves is followed by its focusin.
RunTimer ==
    /\ Idle
    /\ timers # <<>>
    /\ LET element == Head(timers)
       IN IF BrowserFocusable(element) /\ element # focused
          THEN /\ focused' = element
               /\ ev' = LET event == NewEvent("focusin", element, None, FALSE)
                        IN IF event.pending = <<>> THEN NoEvent ELSE event
          ELSE UNCHANGED <<focused, ev>>
    /\ timers' = Tail(timers)
    /\ UNCHANGED <<form, locks, toaster, builders, dom, options, is_activated, last_focus, return_element,
                   handles, listeners, hooks>>

\* ----------------------------------------------------------- the FocusTrap

Alive(t) == handles[t] > 0

RECURSIVE Sum(_, _)
Sum(f, S) == IF S = {} THEN 0
             ELSE LET x == CHOOSE x \in S : TRUE IN f[x] + Sum(f, S \ {x})

LiveHandles == Sum(handles, Traps)

\* FocusTrap::activate
Activate(t) ==
    /\ Idle
    /\ Alive(t)
    /\ is_activated[t] \/ Len(timers) < MaxQueue
    /\ Becomes(activate(World, t))
    /\ UNCHANGED <<form, locks, toaster, builders, dom, options, handles, focused, ev>>

\* FocusTrap::deactivate
Deactivate(t) ==
    /\ Idle
    /\ Alive(t)
    /\ ~is_activated[t] \/ Len(timers) < MaxQueue
    /\ Becomes(deactivate(World, t))
    /\ UNCHANGED <<form, locks, toaster, builders, dom, options, handles, focused, ev>>

\* FocusTrap::clone
CloneHandle(t) ==
    /\ Idle
    /\ Alive(t)
    /\ LiveHandles < MaxHandles
    /\ handles' = [handles EXCEPT ![t] = @ + 1]
    /\ UNCHANGED <<form, locks, toaster, builders, dom, options, is_activated, last_focus, return_element,
                   listeners, timers, focused, ev, hooks>>

\* A drop of the State that removes no listener.
DropHandleOnly(t) ==
    /\ Idle
    /\ Alive(t)
    /\ handles' = [handles EXCEPT ![t] = @ - 1]
    /\ UNCHANGED <<form, locks, toaster, builders, dom, options, is_activated, last_focus, return_element,
                   listeners, timers, focused, ev, hooks>>

\* A FocusTrap handle is dropped; with the last one the State is dropped,
\* and Drop for State removes the listeners.
DropHandle(t) ==
    /\ Idle
    /\ Alive(t)
    /\ handles' = [handles EXCEPT ![t] = @ - 1]
    /\ listeners' = IF handles[t] = 1
                    THEN remove_listeners(listeners, t)
                    ELSE listeners
    /\ UNCHANGED <<form, locks, toaster, builders, dom, options, is_activated, last_focus, return_element,
                   timers, focused, ev, hooks>>

\* ------------------------------------------------- the state lock and hooks

\* The calls on the traps that have not returned, and the Mutex of each
\* State:
\*   locked   trap -> the Mutex<State> of the trap is held
\*   stack    the calls that are running a hook, the innermost last
\*   returned the last call that returned
\*   stuck    the call that tried to take a Mutex that was held: it
\*            deadlocks or panics, the two things Mutex::lock may do then
NoCall == [op |-> None, trap |-> None]

NoCalls ==
    [locked |-> [t \in Traps |-> FALSE],
     stack |-> <<>>,
     returned |-> NoCall,
     stuck |-> [outcome |-> None, op |-> None, trap |-> None]]

LockOutcomes == {"deadlock", "panic"}

\* A Mutex that lets its holder lock it again.
held_never(c, t) == FALSE

\* Mutex::lock finds the Mutex of trap t held.
held(c, t) == c.locked[t]

\* A call can be made: by the application or the browser when nothing runs,
\* or by the hook that is running.
CanCall == locks.stuck.outcome = None /\ Idle

\* The call does not get the lock.
Blocks(t, op) ==
    \E outcome \in LockOutcomes :
        locks' = [locks EXCEPT !.stuck = [outcome |-> outcome, op |-> op, trap |-> t]]

\* The call has the lock and runs the hook: the hook may make calls.
EntersHook(t, op) ==
    locks' = [locks EXCEPT !.locked[t] = TRUE,
                           !.stack = Append(@, [op |-> op, trap |-> t])]

\* The call returns and its guard is dropped.
Returns(t, op) == locks' = [locks EXCEPT !.returned = [op |-> op, trap |-> t]]

\* FocusTrap::activate: self.state.lock().unwrap().activate(), the hook
\* being the last thing State::activate does.
CallActivate(t) ==
    /\ CanCall
    /\ Alive(t)
    /\ IF held(locks, t)
       THEN /\ Blocks(t, "activate")
            /\ UNCHANGED <<is_activated, last_focus, return_element, listeners,
                           timers, hooks>>
       ELSE /\ is_activated[t] \/ Len(timers) < MaxQueue
            /\ Becomes(activate(World, t))
            /\ IF ~is_activated[t] /\ options[t].on_activate
               THEN EntersHook(t, "activate")
               ELSE Returns(t, "activate")
    /\ UNCHANGED <<form, toaster, builders, dom, options, handles, focused, ev>>

\* FocusTrap::deactivate
CallDeactivate(t) ==
    /\ CanCall
    /\ Alive(t)
    /\ IF held(locks, t)
       THEN /\ Blocks(t, "deactivate")
            /\ UNCHANGED <<is_activated, last_focus, return_element, listeners,
                           timers, hooks>>
       ELSE /\ ~is_activated[t] \/ Len(timers) < MaxQueue
            /\ Becomes(deactivate(World, t))
            /\ IF is_activated[t] /\ options[t].on_deactivate
               THEN EntersHook(t, "deactivate")
               ELSE Returns(t, "deactivate")
    /\ UNCHANGED <<form, toaster, builders, dom, options, handles, focused, ev>>

\* FocusTrap::is_activated and FocusTrap::options: lock, read, unlock.
CallRead(t, op) ==
    /\ CanCall
    /\ Alive(t)
    /\ op \in {"is_activated", "options"}
    /\ IF held(locks, t) THEN Blocks(t, op) ELSE Returns(t, op)
    /\ UNCHANGED <<form, toaster, builders, dom, options, is_activated, last_focus,
                   return_element, handles, listeners, timers, focused, ev, hooks>>

\* The keydown listener of trap t is called with an Escape: acquired() locks
\* the State for handle_key_down, which may deactivate the trap.
CallKeyDownEscape(t) ==
    /\ CanCall
    /\ \E k \in 1..Len(listeners) : listeners[k].trap = t /\ listeners[k].type = "keydown"
    /\ IF held(locks, t)
       THEN /\ Blocks(t, "key_down")
            /\ UNCHANGED <<is_activated, last_focus, return_element, listeners,
                           timers, hooks>>
       ELSE IF options[t].deactivate_on_escape
       THEN /\ Len(timers) < MaxQueue
            /\ Becomes(deactivate(World, t))
            /\ IF is_activated[t] /\ options[t].on_deactivate
               THEN EntersHook(t, "key_down")
               ELSE Returns(t, "key_down")
       ELSE /\ Returns(t, "key_down")
            /\ UNCHANGED <<is_activated, last_focus, return_element, listeners,
                           timers, hooks>>
    /\ UNCHANGED <<form, toaster, builders, dom, options, handles, focused, ev>>

\* The innermost hook returns, then the call that ran it: the guard is
\* dropped.
HookReturns ==
    /\ CanCall
    /\ locks.stack # <<>>
    /\ LET call == locks.stack[Len(locks.stack)]
       IN locks' = [locks EXCEPT !.stack = SubSeq(@, 1, Len(@) - 1),
                                 !.locked[call.trap] = FALSE,
                                 !.returned = call]
    /\ UNCHANGED <<form, toaster, builders, dom, options, is_activated, last_focus,
                   return_element, handles, listeners, timers, focused, ev, hooks>>

\* A timeout fires when no call is running.
TimerBetweenCalls ==
    /\ locks.stack = <<>>
    /\ locks.stuck.outcome = None
    /\ RunTimer

\* ------------------------------------------------ FocusTrapOptionsBuilder

\* FocusTrapOptionsBuilder::default: no target yet.
NewBuilder == DefaultOptions(None)

\* A builder in use, one that build() has consumed, one whose build()
\* panicked, and none at all.
Building(fields) == [stage |-> "building", fields |-> fields]

NoBuilder == [stage |-> "none", fields |-> NewBuilder]

\* build() that puts the document body where no target was set.
build_defaulting_target(b) ==
    [panicked |-> FALSE,
     options |-> IF b.target = None THEN [b EXCEPT !.target = "body"] ELSE b]

\* FocusTrapOptionsBuilder::build: the options, or the panic of expect().
build(b) == [panicked |-> b.target = None, options |-> b]

\* The setters of the builder.
BuilderSet(t, fields) ==
    /\ builders[t].stage = "building"
    /\ builders' = [builders EXCEPT ![t] = Building(fields)]
    /\ UNCHANGED <<locks, toaster, form, dom, options, is_activated, last_focus,
                   return_element, handles, listeners, timers, focused, ev, hooks>>

BuilderReturnFocus(t, return_focus_) ==
    BuilderSet(t, [builders[t].fields EXCEPT !.return_focus = return_focus_])

BuilderInitialFocus(t, initial_focus_) ==
    BuilderSet(t, [builders[t].fields EXCEPT !.initial_focus = initial_focus_])

BuilderDeactivateOnEscape(t, deactivate_on_escape) ==
    BuilderSet(t, [builders[t].fields EXCEPT !.deactivate_on_escape = deactivate_on_escape])

BuilderHooks(t) == BuilderSet(t, Hooked(builders[t].fields))

BuilderScope(t, scope) ==
    BuilderSet(t, [builders[t].fields EXCEPT !.scope = scope])

BuilderTarget(t, target_) ==
    BuilderSet(t, [builders[t].fields EXCEPT !.target = target_])

\* create(builder.build()): build() consumes the builder; if it returns,
\* create makes the State and the first handle.
BuildAndCreate(t) ==
    /\ builders[t].stage = "building"
    /\ LET built == build(builders[t].fields)
       IN IF built.panicked
          THEN /\ builders' = [builders EXCEPT ![t].stage = "panicked"]
               /\ UNCHANGED <<options, is_activated, last_focus, return_element,
                              handles>>
          ELSE /\ builders' = [builders EXCEPT ![t].stage = "built"]
               /\ options' = [options EXCEPT ![t] = built.options]
               /\ is_activated' = [is_activated EXCEPT ![t] = FALSE]
               /\ last_focus' = [last_focus EXCEPT ![t] = None]
               /\ return_element' = [return_element EXCEPT ![t] = None]
               /\ handles' = [handles EXCEPT ![t] = 1]
    /\ UNCHANGED <<locks, toaster, form, dom, listeners, timers, focused, ev, hooks>>

\* create(): a deactivated trap that has recorded nothing, one handle.
Created(h) ==
    /\ is_activated = [t \in Traps |-> FALSE]
    /\ last_focus = [t \in Traps |-> None]
    /\ return_element = [t \in Traps |-> None]
    /\ handles = h
    /\ listeners = <<>>
    /\ timers = <<>>
    /\ focused = "body"
    /\ ev = NoEvent
    /\ hooks = [t \in Traps |-> 0]
    /\ builders = [t \in Traps |-> NoBuilder]
    /\ locks = NoCalls

\* ---------------------------------------------------------------- the Toaster

\* ToastTimeout: None, Default, Duration(d).
ToastTimeouts == {"None", "Default", "Duration"}

DismissReasons == {"Timeout", "User"}

\* ToasterOptions.timeout: an Option<Duration>.  "Some" stands for any
\* duration; Default is Some(4 s), without_timeout() is None.
ToasterOptionsDefault == [timeout |-> "Some"]

ToasterOptionsWithoutTimeout == [timeout |-> None]

\* ToastBuilder::build: a toast that is not dismissed.
Toast(timeout) == [dismiss |-> None, timeout |-> timeout]

\* What the last call on the toaster was and what it returned.  `returned`
\* is the bool of dismiss_toast and is FALSE for the other operations.
Call(op, handle, reason) ==
    [op |-> op, handle |-> handle, reason |-> reason, returned |-> FALSE]

\* Toaster::new: an empty State, an Observer without subscribers.
\*   toasts              State.toasts, a map from handle to toast
\*   sequence            State.sequence
\*   timeouts            handles with a pending (forgotten) gloo Timeout
\*   subscribers         Observer.subscribers, the handles in push order
\*   subscriber_sequence the static SEQUENCE of Observer::subscribe
\*   published           the events given to Observer::publish by the last call
\*   delivered           the callbacks run by the last call, in order, each
\*                       with what Toaster::get of the event's handle gives
\*                       when the callback calls it
\*   state_locked        the state Mutex is held
NewToaster(toaster_options) ==
    [options |-> toaster_options,
     state_locked |-> FALSE,
     toasts |-> <<>>,
     sequence |-> 0,
     timeouts |-> {},
     subscribers |-> <<>>,
     subscriber_sequence |-> 0,
     published |-> <<>>,
     delivered |-> <<>>,
     call |-> Call("new", 0, None)]

\* A call begins: nothing is published or delivered by it yet.
Called(ts, call) ==
    [ts EXCEPT !.call = call, !.published = <<>>, !.delivered = <<>>]

CreateEvent(handle) == [type |-> "Create", handle |-> handle, reason |-> None]

DismissEvent(handle, reason) ==
    [type |-> "Dismiss", handle |-> handle, reason |-> reason]

\* Toaster::get: it takes the state Mutex, which is not re-entrant, so it
\* blocks while the Mutex is held; otherwise Some(toast) or None, an Option
\* being a sequence of at most one element.
get(ts, handle) ==
    [blocked |-> ts.state_locked,
     toast |-> IF ~ts.state_locked /\ handle \in DOMAIN ts.toasts
               THEN <<ts.toasts[handle]>> ELSE <<>>]

\* Observer::publish: the callback of every subscriber, in order. A
\* callback looks the toast of the event up with Toaster::get, as the
\* renderer's does.
publish(ts, event) ==
    [ts EXCEPT !.published = Append(@, event),
               !.delivered = @ \o [i \in 1..Len(ts.subscribers) |->
                                      [subscriber |-> ts.subscribers[i],
                                       event |-> event,
                                       got |-> get(ts, event.handle)]]]

\* HashMap::insert.
Insert(map, key, value) ==
    [k \in DOMAIN map \cup {key} |-> IF k = key THEN value ELSE map[k]]

\* add_toast that publishes Create before it drops the state guard.
add_toast_publishing_locked(ts, toast) ==
    LET handle == ts.sequence
        timeout == CASE toast.timeout = "None" -> None
                     [] toast.timeout = "Default" -> ts.options.timeout
                     [] toast.timeout = "Duration" -> "Some"
        stored == [Called(ts, Call("add_toast", handle, None))
                      EXCEPT !.state_locked = TRUE,
                             !.sequence = @ + 1,
                             !.timeouts = IF timeout # None THEN @ \cup {handle} ELSE @,
                             !.toasts = Insert(@, handle, toast)]
    IN [publish(stored, CreateEvent(handle)) EXCEPT !.state_locked = FALSE]

\* add_toast that takes ToastTimeout::Default for a duration whatever the
\* options of the toaster are.
add_toast_default_timed(ts, toast) ==
    LET handle == ts.sequence
        timeout == CASE toast.timeout = "None" -> None
                     [] toast.timeout = "Default" -> "Some"
                     [] toast.timeout = "Duration" -> "Some"
        stored == [Called(ts, Call("add_toast", handle, None))
                      EXCEPT !.state_locked = TRUE,
                             !.sequence = @ + 1,
                             !.timeouts = IF timeout # None THEN @ \cup {handle} ELSE @,
                             !.toasts = Insert(@, handle, toast)]
        dropped == [stored EXCEPT !.state_locked = FALSE]
    IN publish(dropped, CreateEvent(handle))

\* Toaster::add_toast: under the state Mutex the next handle, a timeout if
\* the toast or the toaster asks for one, and the insertion; the guard is
\* dropped and then Create is published.
add_toast(ts, toast) ==
    LET handle == ts.sequence
        timeout == CASE toast.timeout = "None" -> None
                     [] toast.timeout = "Default" -> ts.options.timeout
                     [] toast.timeout = "Duration" -> "Some"
        stored == [Called(ts, Call("add_toast", handle, None))
                      EXCEPT !.state_locked = TRUE,
                             !.sequence = @ + 1,
                             !.timeouts = IF timeout # None THEN @ \cup {handle} ELSE @,
                             !.toasts = Insert(@, handle, toast)]
        dropped == [stored EXCEPT !.state_locked = FALSE]
    IN publish(dropped, CreateEvent(handle))

\* dismiss_toast without the lookup: it publishes and returns true whatever
\* the handle is.
dismiss_toast_unchecked(ts, handle, reason) ==
    LET begun == Called(ts, [Call("dismiss_toast", handle, reason)
                                EXCEPT !.returned = TRUE])
        marked == IF handle \in DOMAIN ts.toasts
                  THEN [begun EXCEPT !.toasts[handle].dismiss = reason]
                  ELSE begun
    IN publish(marked, DismissEvent(handle, reason))

\* Toaster::dismiss_toast: false if the map has no toast of the handle;
\* otherwise the reason is stored under the state Mutex, the guard is
\* dropped, Dismiss is published, true.
dismiss_toast(ts, handle, reason) ==
    LET begun == Called(ts, Call("dismiss_toast", handle, reason))
    IN IF handle \notin DOMAIN ts.toasts
       THEN begun
       ELSE LET marked == [begun EXCEPT !.state_locked = TRUE,
                                        !.toasts[handle].dismiss = reason,
                                        !.call.returned = TRUE]
                dropped == [marked EXCEPT !.state_locked = FALSE]
            IN publish(dropped, DismissEvent(handle, reason))

\* Observer::subscribe: the handle is the static counter's value.
subscribe(ts) ==
    LET handle == ts.subscriber_sequence
    IN [Called(ts, Call("subscribe", handle, None))
           EXCEPT !.subscriber_sequence = @ + 1,
                  !.subscribers = Append(@, handle)]

\* Vec::retain.
Retain(seq, keep) ==
    LET F[i \in 0..Len(seq)] ==
            IF i = 0 THEN <<>>
            ELSE IF keep[seq[i]] THEN Append(F[i - 1], seq[i]) ELSE F[i - 1]
    IN F[Len(seq)]

\* Observer::unsubscribe.
unsubscribe(ts, handle) ==
    [Called(ts, Call("unsubscribe", handle, None))
        EXCEPT !.subscribers = Retain(@, [h \in 0..MaxSubscribers |-> h # handle])]

\* The variables of the focus traps and the form, which the toaster never
\* touches.
TrapVars == <<locks, form, builders, dom, options, is_activated, last_focus, return_element,
              handles, listeners, timers, focused, ev, hooks>>

AddToast(timeout) ==
    /\ toaster.sequence < MaxToasts
    /\ toaster' = add_toast(toaster, Toast(timeout))
    /\ UNCHANGED TrapVars

\* dismiss_toast called by the application, with any handle.
DismissToast(handle, reason) ==
    /\ toaster' = dismiss_toast(toaster, handle, reason)
    /\ UNCHANGED TrapVars

\* The Timeout made by add_toast fires, once.
TimeoutFires(handle) ==
    /\ handle \in toaster.timeouts
    /\ toaster' = dismiss_toast([toaster EXCEPT !.timeouts = @ \ {handle}],
                                handle, "Timeout")
    /\ UNCHANGED TrapVars

Subscribe ==
    /\ toaster.subscriber_sequence < MaxSubscribers
    /\ toaster' = subscribe(toaster)
    /\ UNCHANGED TrapVars

Unsubscribe(handle) ==
    /\ toaster' = unsubscribe(toaster, handle)
    /\ UNCHANGED TrapVars

\* ----------------------------------------------------- the multi-stage form

\* The stage containers of the form over P, and the trap of each stage.
Stages == <<"T1", "T2">>

StageTraps == <<"t1", "t2">>

\* The indices of the stages: 0-based, as in the code.
StageIndices == 0..(Len(Stages) - 1)

TrapOf(index) == StageTraps[index + 1]

\* Inner::new, and the attributes of the containers: no form is activated,
\* data-seigi-stage-relative is on no stage. panicked: a call on the form
\* panicked, which poisons its Mutex.
NewForm(initial_stage) ==
    [current |-> initial_stage, is_activated |-> FALSE, is_locked |-> FALSE,
     panicked |-> FALSE, active_attr |-> FALSE,
     relative |-> [i \in StageIndices |-> <<>>]]

\* No form was built.
NoForm == [NewForm(0) EXCEPT !.panicked = TRUE]

\* The decimal digits, as characters.
Digit(d) == <<"0", "1", "2", "3", "4", "5", "6", "7", "8", "9">>[d + 1]

\* isize::to_string: a string is the sequence of its characters.
RECURSIVE to_string(_)
to_string(n) ==
    IF n < 0 THEN <<"-">> \o to_string(-n)
    ELSE IF n < 10 THEN <<Digit(n)>>
    ELSE to_string(n \div 10) \o <<Digit(n % 10)>>

\* Inner::update_relatives: data-seigi-stage-relative of every stage is set
\* to the text of index - current.
update_relatives(current) == [i \in StageIndices |-> <<to_string(i - current)>>]

\* Inner::activate
FormActivate ==
    /\ Idle
    /\ ~form.panicked
    /\ IF form.is_activated
       THEN UNCHANGED <<form, is_activated, last_focus, return_element,
                        listeners, timers, hooks>>
       ELSE /\ Len(timers) < MaxQueue
            /\ Becomes(activate(World, TrapOf(form.current)))
            /\ form' = [form EXCEPT !.is_activated = TRUE,
                                    !.active_attr = TRUE,
                                    !.relative = update_relatives(form.current)]
    /\ UNCHANGED <<locks, toaster, builders, dom, options, handles, focused, ev>>

\* Inner::deactivate
FormDeactivate ==
    /\ Idle
    /\ ~form.panicked
    /\ IF ~form.is_activated
       THEN UNCHANGED <<form, is_activated, last_focus, return_element,
                        listeners, timers, hooks>>
       ELSE /\ Len(timers) < MaxQueue
            /\ Becomes(deactivate(World, TrapOf(form.current)))
            /\ form' = [form EXCEPT !.is_activated = FALSE,
                                    !.active_attr = FALSE]
    /\ UNCHANGED <<locks, toaster, builders, dom, options, handles, focused, ev>>

\* update_stage activating the incoming trap before it deactivates the
\* outgoing one.
update_stage_activating_first(stage) ==
    IF form.is_locked \/ ~form.is_activated
    THEN UNCHANGED <<form, is_activated, last_focus, return_element,
                     listeners, timers, hooks>>
    ELSE /\ Len(timers) + 2 <= MaxQueue
         /\ IF stage \notin StageIndices
            THEN /\ form' = [form EXCEPT !.panicked = TRUE]
                 /\ UNCHANGED <<is_activated, last_focus, return_element,
                                listeners, timers, hooks>>
            ELSE /\ Becomes(deactivate(activate(World, TrapOf(stage)),
                                       TrapOf(form.current)))
                 /\ form' = [form EXCEPT !.current = stage,
                                         !.relative = update_relatives(stage)]

\* update_stage that leaves the stage-relative attributes as they are.
update_stage_stale_relatives(stage) ==
    IF form.is_locked \/ ~form.is_activated
    THEN UNCHANGED <<form, is_activated, last_focus, return_element,
                     listeners, timers, hooks>>
    ELSE /\ Len(timers) + 2 <= MaxQueue
         /\ LET left == deactivate(World, TrapOf(form.current))
            IN IF stage \notin StageIndices
               THEN /\ Becomes(left)
                    /\ form' = [form EXCEPT !.panicked = TRUE]
               ELSE /\ Becomes(activate(left, TrapOf(stage)))
                    /\ form' = [form EXCEPT !.current = stage]

\* update_stage without the is_activated test.
update_stage_unactivated(stage) ==
    IF form.is_locked
    THEN UNCHANGED <<form, is_activated, last_focus, return_element,
                     listeners, timers, hooks>>
    ELSE /\ Len(timers) + 2 <= MaxQueue
         /\ LET left == deactivate(World, TrapOf(form.current))
            IN IF stage \notin StageIndices
               THEN /\ Becomes(left)
                    /\ form' = [form EXCEPT !.panicked = TRUE]
               ELSE /\ Becomes(activate(left, TrapOf(stage)))
                    /\ form' = [form EXCEPT !.current = stage,
                                            !.relative = update_relatives(stage)]

\* Inner::update_stage: traps.get(target).unwrap() panics, after the current
\* trap was deactivated, when there is no stage `target`.
update_stage(stage) ==
    IF form.is_locked \/ ~form.is_activated
    THEN UNCHANGED <<form, is_activated, last_focus, return_element,
                     listeners, timers, hooks>>
    ELSE /\ Len(timers) + 2 <= MaxQueue
         /\ LET left == deactivate(World, TrapOf(form.current))
            IN IF stage \notin StageIndices
               THEN /\ Becomes(left)
                    /\ form' = [form EXCEPT !.panicked = TRUE]
               ELSE /\ Becomes(activate(left, TrapOf(stage)))
                    /\ form' = [form EXCEPT !.current = stage,
                                            !.relative = update_relatives(stage)]

\* Form::next
FormNext ==
    /\ Idle
    /\ ~form.panicked
    /\ update_stage(form.current + 1)
    /\ UNCHANGED <<locks, toaster, builders, dom, options, handles, focused, ev>>

\* Form::previous: current - 1 on a usize. At stage 0 a build with overflow
\* checks panics there; one without passes usize::MAX, which is no stage.
\* Which one the build is, is not known.
FormPrevious(overflow_checks) ==
    /\ Idle
    /\ ~form.panicked
    /\ IF form.current = 0 /\ overflow_checks
       THEN /\ form' = [form EXCEPT !.panicked = TRUE]
            /\ UNCHANGED <<is_activated, last_focus, return_element,
                           listeners, timers, hooks>>
       ELSE update_stage(form.current - 1)
    /\ UNCHANGED <<locks, toaster, builders, dom, options, handles, focused, ev>>

\* Form::stage
FormStage(stage) ==
    /\ Idle
    /\ ~form.panicked
    /\ update_stage(stage)
    /\ UNCHANGED <<locks, toaster, builders, dom, options, handles, focused, ev>>

\* The documents of the form: with and without controls around the form.
FormNegSets == { {}, {"z"}, {"y", "z"} }

\* FormBuilder::build: a form over P with the stages T1 and T2 and a trap
\* for each.
InitForm ==
    /\ dom \in {Document(neg) : neg \in FormNegSets}
    /\ options = [t \in Traps |-> StageOptions("P", IF t = "t1" THEN "T1" ELSE "T2")]
    /\ Created([t \in Traps |-> 1])
    /\ \E initial_stage \in StageIndices : form = NewForm(initial_stage)
    /\ toaster = NewToaster(ToasterOptionsDefault)

\* The traps of a form are its own: they are driven through the form only.
NextForm ==
    \/ FormActivate
    \/ FormDeactivate
    \/ FormNext
    \/ \E overflow_checks \in BOOLEAN : FormPrevious(overflow_checks)
    \/ \E stage \in 0..Len(Stages) : FormStage(stage)
    \/ \E e \in Leaves : FocusMoves(e)
    \/ \E type \in {"mousedown", "touchstart"}, tgt \in FormPointerTargets : PointerDown(type, tgt)
    \/ \E tgt \in FormPointerTargets : Click(tgt)
    \/ \E k \in Keys : KeyDown(k[1], k[2])
    \/ RunTimer
    \/ \E t \in Traps : HandleFocusIn(t)
    \/ \E t \in Traps : HandlePointerDown(t)
    \/ \E t \in Traps : HandleClick(t)
    \/ \E t \in Traps : HandleKeyDown(t)
    \/ EndDispatch

SpecForm == InitForm /\ [][NextForm]_vars

\* ------------------------------------------------------- the specification

\* The traps an application creates directly and the documents they run
\* in: <<target, scope, return_focus, deactivate_on_escape, initial_focus,
\* the leaves with tabindex="-1">>.
Scenarios ==
    { <<"T1", "body", TRUE, FALSE, InitialFocusAuto, {}>>,
      <<"T1", "body", TRUE, TRUE, InitialFocusAuto, {"b"}>>,
      <<"T1", "body", FALSE, FALSE, InitialFocusNone, {"a", "b"}>>,
      <<"P", "body", TRUE, FALSE, InitialFocusNone, {}>>,
      <<"P", "body", FALSE, TRUE, InitialFocusAuto, {"y"}>>,
      <<"T1", "P", TRUE, FALSE, InitialFocusAuto, {}>>,
      <<"T1", "P", TRUE, TRUE, InitialFocusNone, {"y", "z"}>>,
      <<"T1", "P", FALSE, FALSE, InitialFocusAuto, {"y"}>>,
      <<"T1", "P", FALSE, TRUE, InitialFocusAuto, {"z"}>>,
      <<"T1", "P", TRUE, FALSE, InitialFocusElement("b"), {"a", "b"}>>,
      <<"T1", "P", FALSE, TRUE, InitialFocusSelector("button"), {"b"}>>,
      <<"T2", "P", TRUE, TRUE, InitialFocusFunction("d"), {}>> }

ScenarioOptions(sc) ==
    [Hooked(DefaultOptions(sc[1])) EXCEPT !.scope = sc[2],
                                          !.return_focus = sc[3],
                                          !.deactivate_on_escape = sc[4],
                                          !.initial_focus = sc[5]]

\* One trap made by the application; the other trap is gone.
Init ==
    /\ \E sc \in Scenarios :
          /\ dom = Document(sc[6])
          /\ options = [t \in Traps |-> IF t = "t1" THEN ScenarioOptions(sc)
                                        ELSE StageOptions("P", "T2")]
    /\ Created([t \in Traps |-> IF t = "t1" THEN 1 ELSE 0])
    /\ form = NoForm
    /\ toaster = NewToaster(ToasterOptionsDefault)

Next ==
    \/ \E t \in Traps : Activate(t)
    \/ \E t \in Traps : Deactivate(t)
    \/ \E t \in Traps : DropHandle(t)
    \/ \E e \in Leaves : FocusMoves(e)
    \/ \E type \in {"mousedown", "touchstart"}, tgt \in PointerTargets : PointerDown(type, tgt)
    \/ \E tgt \in PointerTargets : Click(tgt)
    \/ \E k \in Keys : KeyDown(k[1], k[2])
    \/ RunTimer
    \/ \E t \in Traps : HandleFocusIn(t)
    \/ \E t \in Traps : HandlePointerDown(t)
    \/ \E t \in Traps : HandleClick(t)
    \/ \E t \in Traps : HandleKeyDown(t)
    \/ SkipRemoved
    \/ EndDispatch

Spec == Init /\ [][Next]_vars

\* The same with handles that are cloned.
NextCloning ==
    \/ Next
    \/ \E t \in Traps : CloneHandle(t)

SpecCloning == Init /\ [][NextCloning]_vars

\* One trap in the documents of the candidate locator: over T1 with the
\* builder's defaults or without an initial focus, or over P and
\* deactivating on Escape.
InitLocator ==
    /\ dom \in LocatorDocuments
    /\ \E container \in {"T1", "P"}, initial_focus_ \in {InitialFocusAuto, InitialFocusNone} :
          /\ container = "P" => initial_focus_ = InitialFocusAuto
          /\ options = [t \in Traps |->
                           IF t = "t1"
                           THEN [Hooked(DefaultOptions(container))
                                    EXCEPT !.deactivate_on_escape = (container = "P"),
                                           !.initial_focus = initial_focus_]
                           ELSE StageOptions("P", "T2")]
    /\ Created([t \in Traps |-> IF t = "t1" THEN 1 ELSE 0])
    /\ form = NoForm
    /\ toaster = NewToaster(ToasterOptionsDefault)

SpecLocator == InitLocator /\ [][Next]_vars

\* A trap is put together with the builder, created, and used.
InitBuilder ==
    /\ dom = Document({})
    /\ options = [t \in Traps |-> NewBuilder]
    /\ is_activated = [t \in Traps |-> FALSE]
    /\ last_focus = [t \in Traps |-> None]
    /\ return_element = [t \in Traps |-> None]
    /\ handles = [t \in Traps |-> 0]
    /\ listeners = <<>>
    /\ timers = <<>>
    /\ focused = "body"
    /\ ev = NoEvent
    /\ hooks = [t \in Traps |-> 0]
    /\ form = NoForm
    /\ toaster = NewToaster(ToasterOptionsDefault)
    /\ builders = [t \in Traps |-> IF t = "t1" THEN Building(NewBuilder)
                                   ELSE NoBuilder]
    /\ locks = NoCalls

NextBuilder ==
    \/ \E t \in Traps, return_focus_ \in BOOLEAN : BuilderReturnFocus(t, return_focus_)
    \/ \E t \in Traps, initial_focus_ \in {InitialFocusNone, InitialFocusAuto} :
          BuilderInitialFocus(t, initial_focus_)
    \/ \E t \in Traps, deactivate_on_escape \in BOOLEAN :
          BuilderDeactivateOnEscape(t, deactivate_on_escape)
    \/ \E t \in Traps : BuilderHooks(t)
    \/ \E t \in Traps, scope \in {"body", "P"} : BuilderScope(t, scope)
    \/ \E t \in Traps : BuilderTarget(t, "T1")
    \/ \E t \in Traps : BuildAndCreate(t)
    \/ \E t \in Traps : Activate(t)
    \/ \E t \in Traps : Deactivate(t)

SpecBuilder == InitBuilder /\ [][NextBuilder]_vars

\* The same with user events that are dispatched before a pending focus
\* callback has run.
NextRacing ==
    \/ Next
    \/ \E type \in {"mousedown", "touchstart"}, tgt \in PointerTargets :
          EarlyPointerDown(type, tgt)
    \/ \E tgt \in PointerTargets : EarlyClick(tgt)

SpecRacing == Init /\ [][NextRacing]_vars

\* A toaster with or without a default timeout, used by an application that
\* adds toasts, dismisses handles it may or may not hold, and subscribes.
InitToaster ==
    /\ dom = Document({})
    /\ options = [t \in Traps |-> StageOptions("P", IF t = "t1" THEN "T1" ELSE "T2")]
    /\ Created([t \in Traps |-> 0])
    /\ form = NoForm
    /\ toaster \in {NewToaster(ToasterOptionsDefault),
                    NewToaster(ToasterOptionsWithoutTimeout)}

NextToaster ==
    \/ \E timeout \in ToastTimeouts : AddToast(timeout)
    \/ \E handle \in 0..MaxToasts, reason \in DismissReasons : DismissToast(handle, reason)
    \/ \E handle \in 0..(MaxToasts - 1) : TimeoutFires(handle)
    \/ Subscribe
    \/ \E handle \in 0..(MaxSubscribers - 1) : Unsubscribe(handle)

SpecToaster == InitToaster /\ [][NextToaster]_vars


\* The toaster with its timers running: the application adds toasts,
\* dismisses them as the user asks (DismissReason::User; Timeout is the
\* reason of the timers) and subscribes, and a Timeout that add_toast made
\* and forgot fires when its duration is over.
NextAutoDismiss ==
    \/ \E timeout \in ToastTimeouts : AddToast(timeout)
    \/ \E handle \in 0..MaxToasts : DismissToast(handle, "User")
    \/ \E handle \in 0..(MaxToasts - 1) : TimeoutFires(handle)
    \/ Subscribe
    \/ \E handle \in 0..(MaxSubscribers - 1) : Unsubscribe(handle)

TimerFairness == \A handle \in 0..(MaxToasts - 1) : WF_vars(TimeoutFires(handle))

SpecAutoDismiss == InitToaster /\ [][NextAutoDismiss]_vars /\ TimerFairness

\* The event loop of the browser goes on: a dispatch that has begun calls
\* its listeners one after the other and ends, and a zero-delay timeout that
\* is due fires once no event is being dispatched.
EventLoopFairness ==
    /\ WF_vars(RunTimer)
    /\ WF_vars(EndDispatch)
    /\ WF_vars(SkipRemoved)
    /\ WF_vars(\E t \in Traps : HandleFocusIn(t))
    /\ WF_vars(\E t \in Traps : HandlePointerDown(t))
    /\ WF_vars(\E t \in Traps : HandleClick(t))
    /\ WF_vars(\E t \in Traps : HandleKeyDown(t))

SpecEventLoop == Init /\ [][Next]_vars /\ EventLoopFairness

\* Two traps with hooks, the first deactivating on Escape; the hooks call
\* back into the traps.
InitReentry ==
    /\ dom = Document({})
    /\ options = [t \in Traps |->
                     IF t = "t1"
                     THEN [Hooked(DefaultOptions("T1"))
                              EXCEPT !.deactivate_on_escape = TRUE,
                                     !.initial_focus = InitialFocusNone]
                     ELSE [Hooked(StageOptions("P", "T2"))
                              EXCEPT !.initial_focus = InitialFocusNone]]
    /\ Created([t \in Traps |-> 1])
    /\ form = NoForm
    /\ toaster = NewToaster(ToasterOptionsDefault)

NextReentry ==
    \/ \E t \in Traps : CallActivate(t)
    \/ \E t \in Traps : CallDeactivate(t)
    \/ \E t \in Traps, op \in {"is_activated", "options"} : CallRead(t, op)
    \/ \E t \in Traps : CallKeyDownEscape(t)
    \/ HookReturns
    \/ TimerBetweenCalls

SpecReentry == InitReentry /\ [][NextReentry]_vars

\* ------------------------------------------------------------- properties

\* The listeners trap t has registered.
ListenerCount(t) == Cardinality({k \in 1..Len(listeners) : listeners[k].trap = t})

\* A handler of trap t takes a step.
HandlerRuns(t) ==
    HandleFocusIn(t) \/ HandlePointerDown(t) \/ HandleClick(t) \/ HandleKeyDown(t)

\* C1: escape containment. Whenever the focusin handler of a trap runs for a
\* target inside the scope but outside the trap's target, it stops the
\* immediate propagation of the event and, if last_focus is set, schedules a
\* focus on last_focus.
C1EscapeContained ==
    [][\A t \in Traps :
          (HandleFocusIn(t) /\ ~Contains(options[t].target, ev.target))
              => /\ ev'.stopped
                 /\ last_focus[t] # None
                        => timers' = Append(timers, last_focus[t])]_vars

C3ActivateIdempotent ==
    [][\A t \in Traps :
          (Activate(t) /\ is_activated[t])
              => UNCHANGED <<listeners, return_element, timers, hooks,
                             is_activated, last_focus>>]_vars

\* An activated trap with its hook called once, on which activate() may be
\* called again, while the focus has moved since the activation and the trap
\* has recorded an element.
C3Witness ==
    /\ Idle
    /\ Alive("t1")
    /\ is_activated["t1"]
    /\ hooks["t1"] = 1
    /\ ListenerCount("t1") = Len(ListenerKinds)
    /\ last_focus["t1"] # None
    /\ return_element["t1"] # active_element

\* C4: deactivate() on a trap that is deactivated changes nothing: no listener
\* is removed, no focus callback is scheduled, the hook is not called, and
\* is_activated, last_focus and the return element stay as they are.
C4DeactivateNoOp ==
    [][\A t \in Traps :
          (Deactivate(t) /\ ~is_activated[t])
              => UNCHANGED <<listeners, return_element, timers, hooks,
                             is_activated, last_focus>>]_vars

\* A trap that was activated and is deactivated again, on which deactivate()
\* may be called: it has recorded a return element and a last focus, and no
\* focus callback is pending.
C4Witness ==
    /\ Idle
    /\ Alive("t1")
    /\ ~is_activated["t1"]
    /\ hooks["t1"] = 0
    /\ return_element["t1"] \in Leaves
    /\ last_focus["t1"] # None
    /\ timers = <<>>

\* C5: a live trap has no listener registered while it is deactivated and
\* all Len(ListenerKinds) = 6 of them while it is activated.
C5AllOrNothing ==
    \A t \in Traps :
        Alive(t) => ListenerCount(t) = IF is_activated[t]
                                       THEN Len(ListenerKinds) ELSE 0

\* The Escape handler has deactivated the trap in the middle of a dispatch.
C5Witness ==
    /\ Alive("t1")
    /\ ~is_activated["t1"]
    /\ ev.key = "Escape"
    /\ ev.prevented
    /\ ListenerCount("t1") = 0

\* C6: a trap whose last handle is dropped has no listener left and none of
\* its handlers runs afterwards; the drop of a handle that is not the last
\* one removes no listener and leaves is_activated as it is.
C6NoDanglingListeners ==
    /\ [](\A t \in Traps : ~Alive(t) => ListenerCount(t) = 0)
    /\ [][\A t \in Traps :
             /\ HandlerRuns(t) => Alive(t)
             /\ (DropHandle(t) /\ handles[t] > 1)
                    => UNCHANGED <<listeners, is_activated>>]_vars

\* The last handle of a trap was dropped while the trap was activated.
C6Witness ==
    /\ ~Alive("t1")
    /\ is_activated["t1"]
    /\ ListenerCount("t1") = 0

\* C7: return focus. With return_focus = true an effective activate()
\* records the element that is focused at that moment, and an effective
\* deactivate() schedules a focus on the recorded element.
C7ReturnFocus ==
    [][\A t \in Traps :
          options[t].return_focus
              => /\ (Activate(t) /\ ~is_activated[t])
                        => return_element'[t] = focused
                 /\ (Deactivate(t) /\ is_activated[t])
                        => timers' = Append(timers, return_element[t])]_vars

\* C8: with return_focus = false an effective deactivation, by deactivate()
\* or by Escape, schedules no focus callback.
C8NoReturnFocus ==
    [][\A t \in Traps :
          (/\ ~options[t].return_focus
           /\ is_activated[t]
           /\ \/ Deactivate(t)
              \/ HandleKeyDown(t) /\ ev.key = "Escape")
              => timers' = timers]_vars

\* The tabbable elements of the document that the Tab handling of a trap
\* moves through: those outside its scope and those inside its target.
C9Ring(t) ==
    {n \in Nodes : /\ dom[n].html
                   /\ MatchesSelector(n)
                   /\ is_tabbable(n)
                   /\ \/ ~Contains(options[t].scope, n)
                      \/ Contains(options[t].target, n)}

C9Index(n) == CHOOSE i \in 1..Len(DocOrder) : DocOrder[i] = n

C9First(S) == CHOOSE n \in S : \A m \in S : C9Index(n) <= C9Index(m)

\* The element of the ring that follows e in document order, wrapping around.
C9Next(t, e) ==
    LET after == {n \in C9Ring(t) : C9Index(n) > C9Index(e)}
    IN IF after # {} THEN C9First(after) ELSE C9First(C9Ring(t))

\* C9 as stated: with the traps of T1 = [a, b] and T2 = [c, d] sharing their
\* parent as scope, a Tab on b handled by T1's trap schedules a focus on a,
\* and a Tab on d handled by T2's trap schedules a focus on c.
C9WrapsInsideTarget ==
    [][/\ (HandleKeyDown("t1") /\ ev.key = "Tab" /\ ~ev.shift /\ ev.target = "b")
              => timers' = Append(timers, "a")
       /\ (HandleKeyDown("t2") /\ ev.key = "Tab" /\ ~ev.shift /\ ev.target = "d")
              => timers' = Append(timers, "c")]_vars

\* C9, amended: a Tab on the last tab candidate of the target of a stage
\* trap schedules a focus on the element that follows it, in document order
\* and wrapping around, among the tabbable elements that are outside the
\* shared scope or inside the trap's own target. That element is never inside
\* the scope but outside the target (never c or d for T1, never a or b for
\* T2), and it is the first tab candidate of the target (a for T1, c for T2)
\* when no tabbable element lies outside the scope.
C9ScopeComposition ==
    [][\A t \in Traps :
          LET L == tab_candidates(options[t].target)
              next == C9Next(t, ev.target)
          IN (/\ HandleKeyDown(t)
              /\ ev.key = "Tab"
              /\ ~ev.shift
              /\ L # <<>>
              /\ ev.target = L[Len(L)])
                 => /\ timers' = Append(timers, next)
                    /\ Contains(options[t].scope, next)
                           => Contains(options[t].target, next)
                    /\ (\A n \in C9Ring(t) : Contains(options[t].scope, n))
                           => next = L[1]]_vars

\* The trap of T1 has handled a Tab on b in a document with a control after
\* the form: the focus is scheduled on that control, outside the form.
C9Witness ==
    /\ form.is_activated
    /\ is_activated["t1"]
    /\ ev.type = "keydown" /\ ev.key = "Tab" /\ ~ev.shift /\ ev.prevented
    /\ ev.target = "b"
    /\ timers # <<>>
    /\ timers[Len(timers)] = "z"

\* C10: zero-candidate pinning. When the target of a trap has no tab
\* candidate, the keydown handler prevents the default of a Tab, with or
\* without shift, and schedules no focus callback; the focus stays.
C10ZeroCandidatePinning ==
    [][\A t \in Traps :
          (/\ HandleKeyDown(t)
           /\ ev.key = "Tab"
           /\ tab_candidates(options[t].target) = <<>>)
              => /\ ev'.prevented
                 /\ timers' = timers
                 /\ focused' = focused]_vars

\* A Shift+Tab was handled by an activated trap whose target has no tab
\* candidate: the default is prevented and nothing is scheduled.
C10Witness ==
    /\ is_activated["t1"]
    /\ tab_candidates(options["t1"].target) = <<>>
    /\ ev.type = "keydown" /\ ev.key = "Tab" /\ ev.shift /\ ev.prevented
    /\ timers = <<>>

\* The events a user initiates.
UserEventTypes == {"mousedown", "touchstart", "click", "keydown"}

\* The dispatch of a user event begins.
UserEventBegins == ev = NoEvent /\ ev' # NoEvent /\ ev'.type \in UserEventTypes

\* queue is the beginning of longer.
IsPrefix(queue, longer) ==
    /\ Len(queue) <= Len(longer)
    /\ \A i \in 1..Len(queue) : queue[i] = longer[i]

\* C11: every focus change of the trap is deferred. activate(), deactivate()
\* and the handlers leave the focused element as it is; the focused element
\* changes only when a queued callback runs or when the user or the
\* application moves the focus, and a callback runs only when no handler is
\* running.
C11FocusDeferred ==
    [][/\ \A t \in Traps :
             (Activate(t) \/ Deactivate(t) \/ HandlerRuns(t)) => focused' = focused
       /\ focused' # focused
             => \/ RunTimer /\ ev = NoEvent /\ focused' = Head(timers)
                \/ \E e \in Leaves : FocusMoves(e)]_vars

\* The focusin handler has met a focus escape and returned: the refocus of
\* last_focus is queued and the focus is still on the outside element.
C11Witness ==
    /\ ev.type = "focusin" /\ ev.stopped
    /\ timers # <<>>
    /\ timers[Len(timers)] = last_focus["t1"]
    /\ focused = ev.target
    /\ ~Contains(options["t1"].target, focused)

\* C12 as stated: a scheduled focus callback runs after the handler chain of
\* the action that scheduled it, callbacks run in the order they were
\* scheduled, and no user event is dispatched while a callback is pending.
C12RunsBeforeNextUserEvent ==
    [][/\ Len(timers') < Len(timers) => ev = NoEvent /\ timers' = Tail(timers)
       /\ Len(timers') >= Len(timers) => IsPrefix(timers, timers')
       /\ UserEventBegins => timers = <<>>]_vars

\* C12, amended: a scheduled focus callback runs strictly after the handler
\* chain of the action that scheduled it has completed, and the callbacks
\* run in the order in which they were scheduled: only the oldest one is
\* taken from the queue and a new one goes behind the pending ones. (A user
\* event that was already waiting may be dispatched before the callback.)
C12FifoAfterHandlers ==
    [][/\ Len(timers') < Len(timers) => ev = NoEvent /\ timers' = Tail(timers)
       /\ Len(timers') >= Len(timers) => IsPrefix(timers, timers')]_vars

\* The refocus of last_focus was scheduled by the focusin handler, its
\* handler chain is over, and the dispatch of a click has begun before the
\* callback has run.
C12Witness ==
    /\ Len(timers) = 1
    /\ timers[1] = last_focus["t1"]
    /\ focused # timers[1]
    /\ ev.type = "click"

\* C13: last_focus of a trap is unset or an element inside the trap's
\* target, and it is written only by the focusin handler of the trap, with
\* the target of a focusin that is inside the trap's target.
C13LastFocusInBounds ==
    /\ [](\A t \in Traps :
             last_focus[t] = None \/ Contains(options[t].target, last_focus[t]))
    /\ [][\A t \in Traps :
             last_focus'[t] # last_focus[t]
                 => /\ HandleFocusIn(t)
                    /\ target(ev) # None
                    /\ Contains(options[t].target, target(ev))
                    /\ last_focus'[t] = target(ev)]_vars

\* The focus went from b, inside the target, to an HTML element outside of
\* it, and the focusin handler has run: last_focus is still b.
C13Witness ==
    /\ ev.type = "focusin" /\ ev.stopped
    /\ dom[ev.target].html
    /\ ~Contains(options["t1"].target, ev.target)
    /\ last_focus["t1"] = "b"

\* Trap t has its listeners registered.
Listening(t) == \E k \in 1..Len(listeners) : listeners[k].trap = t

\* C14: elements outside the scope are not affected. A handler of a trap
\* runs only for an event whose target is inside the trap's scope; the
\* default of an event is prevented and its propagation is stopped only by
\* the handler of a trap whose scope holds the event's target; and when the
\* focus lands on an element outside the scope of
\* every listening trap, no handler is called and no focus callback is
\* scheduled.
C14OutsideScopeUnaffected ==
    /\ [](\A k \in 1..Len(ev.pending) :
             Contains(options[ev.pending[k].trap].scope, ev.target))
    /\ [][/\ \A t \in Traps :
                HandlerRuns(t) => Contains(options[t].scope, ev.target)
          /\ ((ev'.prevented /\ ~ev.prevented) \/ (ev'.stopped /\ ~ev.stopped))
                => \E t \in Traps : /\ HandlerRuns(t)
                                    /\ Contains(options[t].scope, ev.target)
          /\ (/\ focused' # focused
              /\ \A t \in Traps :
                    Listening(t) => ~Contains(options[t].scope, focused'))
                => /\ ev' = NoEvent
                   /\ timers' = timers \/ timers' = Tail(timers)]_vars

\* The focus went from inside the target of an activated trap whose scope is
\* P to z, outside P: no handler ran and nothing is scheduled.
C14Witness ==
    /\ is_activated["t1"]
    /\ Listening("t1")
    /\ options["t1"].scope = "P"
    /\ last_focus["t1"] # None
    /\ focused = "z"
    /\ ev = NoEvent
    /\ timers = <<>>

\* A call of next, previous or stage(n).
StageChange ==
    \/ FormNext
    \/ \E overflow_checks \in BOOLEAN : FormPrevious(overflow_checks)
    \/ \E stage \in 0..Len(Stages) : FormStage(stage)

\* C15: stage switching order. Two stage traps of the form are never
\* activated at once; while the form is activated and no call has panicked,
\* the trap of the current stage is the activated one; and a stage change of
\* an activated form that does not panic ends with the form at the new stage
\* and only that stage's trap activated, and has scheduled the focus
\* callback of the outgoing trap's deactivation before that of the incoming
\* trap's activation.
C15StageSwitchOrder ==
    /\ [](/\ ~(is_activated["t1"] /\ is_activated["t2"])
          /\ (form.is_activated /\ ~form.panicked)
                => is_activated[TrapOf(form.current)])
    /\ [][(StageChange /\ form.is_activated /\ ~form'.panicked)
             => LET outgoing == TrapOf(form.current)
                    incoming == TrapOf(form'.current)
                    returned == IF return_element[outgoing] # None
                                THEN <<return_element[outgoing]>> ELSE <<>>
                    initial == IF focus_candidates(options[incoming].target) # <<>>
                               THEN <<Head(focus_candidates(options[incoming].target))>>
                               ELSE <<>>
                IN /\ is_activated' = [t \in Traps |-> t = incoming]
                   /\ timers' = timers \o returned \o initial
                   /\ \A t \in Traps : Listening(t)' <=> t = incoming]_vars

\* The form went from stage 0 to stage 1: the trap of T2 is the activated
\* one, and the callback of the outgoing trap is queued before the initial
\* focus of the incoming one.
C15Witness ==
    /\ form.is_activated
    /\ form.current = 1
    /\ is_activated["t2"] /\ ~is_activated["t1"]
    /\ Len(timers) = 2
    /\ timers[1] = return_element["t1"]
    /\ timers[2] = "c"
    /\ timers[1] # timers[2]

\* The elements of a sequence.
Range(seq) == {seq[i] : i \in 1..Len(seq)}

\* The element carries the inert attribute or disabled="true".
MarkedInertOrDisabled(e) == dom[e].inert # None \/ dom[e].disabled = "true"

\* C16: inert/disabled exclusion. An element that carries the inert
\* attribute or disabled="true" is in tab_candidates and focus_candidates of
\* no container and is returned by first_tab_candidate and
\* first_focus_candidate for no container.
C16InertDisabledExcluded ==
    \A container \in Nodes \ Leaves, e \in Nodes :
        MarkedInertOrDisabled(e)
            => /\ e \notin Range(tab_candidates(container))
               /\ e \notin Range(focus_candidates(container))
               /\ first_tab_candidate(container) # e
               /\ first_focus_candidate(container) # e

\* A trap over T1 was activated in a document where a carries
\* disabled="true": the Auto initial focus went past a to b.
C16Witness ==
    /\ dom["a"].disabled = "true"
    /\ dom["b"] = Button
    /\ options["t1"].target = "T1"
    /\ is_activated["t1"]
    /\ timers = <<"b">>

\* An ancestor of e, at any depth, is marked inert.
InertAbove(e) == \E n \in Nodes : n # e /\ Contains(n, e) /\ is_inert(n)

\* C17: is_focusable is false for every element with an inert ancestor at
\* any depth; such an element is a focus or tab candidate of no container and
\* no focus callback is scheduled for it as the Auto initial focus.
C17InertAncestorExcluded ==
    /\ \A e \in Nodes :
          InertAbove(e)
              => /\ ~is_focusable(e)
                 /\ \A container \in Nodes \ Leaves :
                       /\ e \notin Range(focus_candidates(container))
                       /\ e \notin Range(tab_candidates(container))
    /\ \A t \in Traps :
          (options[t].initial_focus = InitialFocusAuto /\ timers # <<>>)
              => ~InertAbove(timers[Len(timers)])

\* C18: construction fails only at build time. build() panics exactly when
\* no target was set. With a target it returns the options the builder
\* holds, which are the defaults (scope the document body, return_focus
\* true, deactivate_on_escape false, initial_focus Auto) for a builder on
\* which only the target was set; and create returns a trap that is
\* deactivated and has no listener registered.
C18FailsOnlyAtBuild ==
    /\ [](builders["t1"].stage = "building"
             => LET b == builders["t1"].fields
                IN /\ build(b).panicked <=> b.target = None
                   /\ b.target # None => build(b).options = b
                   /\ build([NewBuilder EXCEPT !.target = "T1"]).options
                         = [return_focus |-> TRUE,
                            initial_focus |-> InitialFocusAuto,
                            deactivate_on_escape |-> FALSE,
                            on_activate |-> FALSE,
                            on_deactivate |-> FALSE,
                            scope |-> "body",
                            target |-> "T1"])
    /\ [][\A t \in Traps :
             BuildAndCreate(t)
                 => IF builders[t].fields.target = None
                    THEN /\ builders'[t].stage = "panicked"
                         /\ ~Alive(t)'
                    ELSE /\ builders'[t].stage = "built"
                         /\ options'[t] = builders[t].fields
                         /\ Alive(t)'
                         /\ ~is_activated'[t]
                         /\ ListenerCount(t)' = 0]_vars

\* A builder on which the target, the scope and return_focus were set was
\* built and the trap created: it is deactivated and listens to nothing.
C18Witness ==
    /\ builders["t1"].stage = "built"
    /\ options["t1"].scope = "P"
    /\ options["t1"].target = "T1"
    /\ ~options["t1"].return_focus
    /\ Alive("t1")
    /\ ~is_activated["t1"]
    /\ ListenerCount("t1") = 0

\* The handles add_toast has returned so far.
Added(ts) == 0..(ts.sequence - 1)

\* C19: dismiss_toast(handle, reason) returns true exactly when a toast with
\* that handle was added to the toaster; then the toast's dismiss field is
\* Some(reason), no other toast changes and one Dismiss event of that handle
\* and reason is published; for a handle that was never added it returns
\* false, changes no toast and publishes nothing.
C19DismissToast ==
    [][\A handle \in 0..MaxToasts, reason \in DismissReasons :
          (/\ toaster' # toaster
           /\ toaster'.call.op = "dismiss_toast"
           /\ toaster'.call.handle = handle
           /\ toaster'.call.reason = reason)
          => LET added == handle \in Added(toaster)
             IN /\ toaster'.call.returned = added
                /\ added => /\ toaster'.toasts[handle].dismiss = reason
                            /\ \A h \in Added(toaster) \ {handle} :
                                  toaster'.toasts[h] = toaster.toasts[h]
                            /\ toaster'.published = <<DismissEvent(handle, reason)>>
                /\ ~added => /\ toaster'.toasts = toaster.toasts
                             /\ toaster'.published = <<>>
                             /\ toaster'.delivered = <<>>]_vars

\* A toast with no timeout pending is dismissed by the user, with two
\* subscribers listening.
C19Witness ==
    /\ toaster.call.op = "dismiss_toast"
    /\ toaster.call.returned
    /\ toaster.call.reason = "User"
    /\ toaster.toasts[toaster.call.handle].dismiss = "User"
    /\ toaster.call.handle \notin toaster.timeouts
    /\ Len(toaster.delivered) = 2

\* The number a decimal digit stands for.
DigitValue(c) ==
    CASE c = "0" -> 0 [] c = "1" -> 1 [] c = "2" -> 2 [] c = "3" -> 3 [] c = "4" -> 4
      [] c = "5" -> 5 [] c = "6" -> 6 [] c = "7" -> 7 [] c = "8" -> 8 [] c = "9" -> 9

\* The number an unsigned decimal numeral stands for.
RECURSIVE DecimalValue(_)
DecimalValue(numeral) ==
    IF numeral = <<>> THEN 0
    ELSE 10 * DecimalValue(SubSeq(numeral, 1, Len(numeral) - 1))
            + DigitValue(numeral[Len(numeral)])

\* The number read from data-seigi-stage-relative of stage i, which is set.
StageRelative(i) ==
    LET text == form.relative[i][1]
    IN IF text[1] = "-" THEN 0 - DecimalValue(Tail(text)) ELSE DecimalValue(text)

\* C20: whenever the form is activated, every stage container i carries
\* data-seigi-stage-relative, and its value reads as i - current.
C20StageRelative ==
    form.is_activated
        => \A i \in StageIndices :
              /\ form.relative[i] # <<>>
              /\ StageRelative(i) = i - form.current

\* The form was moved to the second stage and back to the first: the second
\* stage's trap has been activated once and the second stage reads 1.
C20Witness ==
    /\ form.is_activated
    /\ ~form.panicked
    /\ form.current = 0
    /\ return_element["t2"] # None
    /\ form.relative[1] = << <<"1">> >>
    /\ form.relative[0] = << <<"0">> >>

\* The elements inside the target of trap t (its descendants) that match the
\* selector of its initial focus, by their place in the document.
SelectorMatchesInside(t) ==
    {i \in 1..Len(DocOrder) :
        /\ DocOrder[i] # options[t].target
        /\ Contains(options[t].target, DocOrder[i])
        /\ dom[DocOrder[i]].tag = options[t].initial_focus.arg}

\* C21: with InitialFocus::Selector(sel) an effective activation schedules the
\* initial focus on the first element inside the target that matches sel, and
\* never on an element outside the target.
C21SelectorInsideTarget ==
    [][\A t \in Traps :
          (/\ Activate(t)
           /\ ~is_activated[t]
           /\ options[t].initial_focus.kind = "Selector")
              => LET inside == SelectorMatchesInside(t)
                 IN IF inside = {}
                    THEN timers' = timers
                    ELSE timers' = Append(timers,
                             DocOrder[CHOOSE i \in inside : \A j \in inside : i <= j])]_vars

C22Last(S) == CHOOSE n \in S : \A m \in S : C9Index(m) <= C9Index(n)

\* The element of the ring that precedes e in document order, wrapping around.
C22Previous(t, e) ==
    LET preceding == {n \in C9Ring(t) : C9Index(n) < C9Index(e)}
    IN IF preceding # {} THEN C22Last(preceding) ELSE C22Last(C9Ring(t))

\* C22: scope-aware wrap. A Shift+Tab keydown on the first tab candidate of
\* the target prevents the default and schedules a focus on the nearest
\* preceding tabbable element that is outside the scope or inside the target,
\* wrapping around to the last such element; a Tab keydown on the last tab
\* candidate does the same with the nearest following one, wrapping around to
\* the first. The scheduled element is never inside the scope but outside the
\* target.
C22ScopeAwareWrap ==
    [][\A t \in Traps :
          LET L == tab_candidates(options[t].target)
              edge == IF ev.shift THEN L[1] ELSE L[Len(L)]
              goal == IF ev.shift THEN C22Previous(t, ev.target)
                      ELSE C9Next(t, ev.target)
          IN (/\ HandleKeyDown(t)
              /\ ev.key = "Tab"
              /\ L # <<>>
              /\ ev.target = edge)
                 => /\ ev'.prevented
                    /\ timers' = Append(timers, goal)
                    /\ ~(/\ Contains(options[t].scope, goal)
                         /\ ~Contains(options[t].target, goal))]_vars

\* A Shift+Tab on a, the first candidate of a trap over T1 whose scope is P,
\* has been handled: the focus is scheduled on y, the control before the
\* scope, and not on b.
C22Witness ==
    /\ is_activated["t1"]
    /\ options["t1"].scope = "P"
    /\ options["t1"].target = "T1"
    /\ ev.type = "keydown" /\ ev.key = "Tab" /\ ev.shift /\ ev.prevented
    /\ ev.target = "a"
    /\ timers # <<>>
    /\ timers[Len(timers)] = "y"

\* The State of every trap and the scheduled callbacks.
TrapState == <<is_activated, last_focus, return_element, timers>>

\* C23: while the trap is activated, its mousedown / touchstart handler
\* prevents the default of an event whose target is inside the scope but
\* outside the target and does not stop its propagation; it leaves an event
\* whose target is inside the target untouched; in both cases is_activated,
\* last_focus, the return element and the scheduled callbacks are unchanged.
C23PointerDownOutside ==
    [][\A t \in Traps :
          (HandlePointerDown(t) /\ is_activated[t])
              => /\ TrapState' = TrapState
                 /\ ~ev'.stopped
                 /\ IF Contains(options[t].target, ev.target)
                    THEN ev'.prevented = ev.prevented
                    ELSE ev'.prevented]_vars

\* C24: while the trap is activated, its click handler prevents the default
\* and stops the immediate propagation of a click whose target is inside the
\* scope but outside the target, so that no later listener is called; a click
\* inside the target is neither prevented nor stopped; the trap state is
\* unchanged in both cases.
C24ClickOutside ==
    [][\A t \in Traps :
          (HandleClick(t) /\ is_activated[t])
              => /\ TrapState' = TrapState
                 /\ IF Contains(options[t].target, ev.target)
                    THEN ev'.prevented = ev.prevented /\ ev'.stopped = ev.stopped
                    ELSE ev'.prevented /\ ev'.stopped /\ ev'.pending = <<>>]_vars

\* C25: the Escape key. The keydown handler of an activated trap with
\* deactivate_on_escape = true prevents the default of an Escape keydown and
\* deactivates the trap: its listeners are removed, on_deactivate is called
\* and is_activated is false. With deactivate_on_escape = false it does not
\* prevent the default and leaves the trap activated, its state, listeners
\* and hook calls unchanged.
C25EscapeKey ==
    [][\A t \in Traps :
          (HandleKeyDown(t) /\ ev.key = "Escape" /\ is_activated[t])
              => IF options[t].deactivate_on_escape
                 THEN /\ ev'.prevented
                      /\ ~is_activated'[t]
                      /\ ListenerCount(t)' = 0
                      /\ options[t].on_deactivate => hooks'[t] = hooks[t] - 1
                 ELSE /\ ev'.prevented = ev.prevented
                      /\ is_activated'[t]
                      /\ TrapState' = TrapState
                      /\ listeners' = listeners
                      /\ hooks' = hooks]_vars

\* An Escape keydown has deactivated a trap that deactivates on Escape and
\* has an on_deactivate hook: the default is prevented, no listener is left,
\* the hook calls are balanced.
C25Witness ==
    /\ ev.type = "keydown" /\ ev.key = "Escape" /\ ev.prevented
    /\ options["t1"].deactivate_on_escape
    /\ options["t1"].on_deactivate
    /\ ~is_activated["t1"]
    /\ ListenerCount("t1") = 0
    /\ hooks["t1"] = 0

\* C26: the initial focus is resolved once per effective activation and
\* schedules at most one focus callback. With InitialFocus::None nothing is
\* scheduled; with InitialFocus::Auto the first focus candidate of the target
\* in document order is scheduled, and nothing when the target has no focus
\* candidate. An activate() of an activated trap schedules nothing.
C26InitialFocusOnce ==
    [][\A t \in Traps :
          Activate(t)
              => LET found == focus_candidates(options[t].target)
                     kind == options[t].initial_focus.kind
                 IN /\ is_activated[t] => timers' = timers
                    /\ Len(timers') <= Len(timers) + 1
                    /\ (~is_activated[t] /\ kind = "None") => timers' = timers
                    /\ (~is_activated[t] /\ kind = "Auto")
                           => timers' = IF found = <<>> THEN timers
                                        ELSE Append(timers, found[1])]_vars

\* A trap with InitialFocus::Auto was activated over a target whose first
\* button is disabled: the one callback scheduled is for the second button.
C26Witness ==
    /\ is_activated["t1"]
    /\ options["t1"].initial_focus.kind = "Auto"
    /\ options["t1"].target = "T1"
    /\ is_disabled("a")
    /\ focus_candidates("T1") = <<"b">>
    /\ timers = <<"b">>
    /\ focused = "body"

\* C27: hooks fire exactly once per effective transition. For a trap with
\* both hooks, an activate() that activates it calls on_activate once, a
\* deactivation that deactivates it (deactivate() or the Escape key) calls
\* on_deactivate once, and a call that changes nothing calls no hook; so the
\* calls of on_activate minus the calls of on_deactivate are 1 while the trap
\* is activated and 0 while it is not.
C27HooksOncePerTransition ==
    /\ [](\A t \in Traps :
             (options[t].on_activate /\ options[t].on_deactivate)
                 => hooks[t] = IF is_activated[t] THEN 1 ELSE 0)
    /\ [][\A t \in Traps :
             (options[t].on_activate /\ options[t].on_deactivate)
                 => /\ (~is_activated[t] /\ is_activated'[t]) => hooks'[t] = hooks[t] + 1
                    /\ (is_activated[t] /\ ~is_activated'[t]) => hooks'[t] = hooks[t] - 1
                    /\ is_activated'[t] = is_activated[t] => hooks'[t] = hooks[t]]_vars

\* A trap with hooks that does not deactivate on Escape was activated, has
\* seen the focus inside its target and was deactivated by deactivate(): the
\* hook calls are balanced.
C27Witness ==
    /\ options["t1"].on_activate /\ options["t1"].on_deactivate
    /\ ~options["t1"].deactivate_on_escape
    /\ ~is_activated["t1"]
    /\ last_focus["t1"] # None
    /\ hooks["t1"] = 0
    /\ ev = NoEvent

\* C28: no cancellation. A focus callback, once scheduled, stays queued until
\* it runs: activate(), deactivate() and the drop of the trap leave the
\* pending callbacks in place, and a callback leaves the queue only by
\* running, the oldest first. It eventually runs: the queue does not stay
\* non-empty without callbacks running. A callback whose focus attempt fails
\* changes neither the focus nor the state of a trap.
C28NoCancellation ==
    /\ [][/\ \A t \in Traps :
                (Activate(t) \/ Deactivate(t) \/ DropHandle(t) \/ HandlerRuns(t))
                    => IsPrefix(timers, timers')
          /\ timers' # timers
                => \/ IsPrefix(timers, timers')
                   \/ RunTimer /\ timers' = Tail(timers)
          /\ (RunTimer /\ ~BrowserFocusable(Head(timers)))
                => /\ focused' = focused
                   /\ ev' = ev
                   /\ <<is_activated, last_focus, return_element, listeners, hooks>>'
                         = <<is_activated, last_focus, return_element, listeners, hooks>>]_vars
    /\ ([]<><<RunTimer>>_vars) \/ (<>[](timers = <<>>))

\* The trap was deactivated and its last handle dropped while the callback
\* of its initial focus was pending behind it: both callbacks are queued.
C28Witness ==
    /\ handles["t1"] = 0
    /\ ~is_activated["t1"]
    /\ ListenerCount("t1") = 0
    /\ Len(timers) = 2
    /\ timers[2] = "body"
    /\ BrowserFocusable(timers[1])

\* A call on trap t is made in this step.
CallOn(t) ==
    \/ CallActivate(t)
    \/ CallDeactivate(t)
    \/ \E op \in {"is_activated", "options"} : CallRead(t, op)
    \/ CallKeyDownEscape(t)

\* A hook of trap t is running.
InHook(t) == \E i \in 1..Len(locks.stack) : locks.stack[i].trap = t

\* C29: re-entrancy is not supported. A handle operation or handler holds the
\* Mutex of its trap's State for its whole duration, its hook included; an
\* operation on a trap that is made while a hook of that trap is running
\* never completes: it deadlocks or panics on the Mutex that is held, without
\* having read or changed the State, and it does not return.
C29NoReentrancy ==
    /\ [](\A t \in Traps : InHook(t) => locks.locked[t])
    /\ [][\A t \in Traps :
             (CallOn(t) /\ InHook(t))
                 => /\ locks'.stuck.outcome \in LockOutcomes
                    /\ locks'.stuck.trap = t
                    /\ locks'.returned = locks.returned
                    /\ locks'.stack = locks.stack
                    /\ <<is_activated, last_focus, return_element, listeners, timers, hooks>>'
                          = <<is_activated, last_focus, return_element, listeners, timers, hooks>>]_vars
    /\ [][locks.stuck.outcome = None]_vars

\* The on_activate hook of the first trap has called activate() on the same
\* trap: the call waits for the Mutex that the outer activate() holds.
C29Witness ==
    /\ locks.stack = << [op |-> "activate", trap |-> "t1"] >>
    /\ locks.locked["t1"]
    /\ locks.stuck = [outcome |-> "deadlock", op |-> "activate", trap |-> "t1"]
    /\ is_activated["t1"]
    /\ hooks["t1"] = 1

\* The focusin listeners `pending` are called for a focus that moved to e:
\* what handle_focus_in makes of st = [focused, timers, last_focus].
RECURSIVE FocusInChain(_, _, _)
FocusInChain(pending, e, st) ==
    IF pending = <<>> THEN st
    ELSE LET t == Head(pending).trap
         IN IF ~dom[e].html
            THEN FocusInChain(Tail(pending), e, st)
            ELSE IF Contains(options[t].target, e)
            THEN FocusInChain(Tail(pending), e, [st EXCEPT !.last_focus[t] = e])
            ELSE [st EXCEPT !.timers = IF st.last_focus[t] # None
                                       THEN Append(@, st.last_focus[t])
                                       ELSE @]

\* The scheduled callbacks run one after the other, each followed by the
\* focusin it causes, until none is left: the element that is focused and
\* last_focus in the end.
RECURSIVE Settle(_, _)
Settle(st, fuel) ==
    IF st.timers = <<>> \/ fuel = 0
    THEN [focused |-> st.focused, last_focus |-> st.last_focus,
          drained |-> st.timers = <<>>]
    ELSE LET e == Head(st.timers)
             rest == [st EXCEPT !.timers = Tail(@)]
         IN IF BrowserFocusable(e) /\ e # st.focused
            THEN Settle(FocusInChain(DispatchPath("focusin", e), e,
                                     [rest EXCEPT !.focused = e]),
                        fuel - 1)
            ELSE Settle(rest, fuel - 1)

\* C30: the keydown handler is idempotent for one keypress. When the
\* bubble-phase listener delivers to the handler a Tab or Escape keydown that
\* the capture-phase listener has delivered already, is_activated,
\* last_focus, the return element, the listeners, the hook calls and the
\* prevented default stay as the first delivery left them, and the element
\* that is focused once all scheduled callbacks have run is the one it would
\* be after the first delivery alone; on_deactivate is not called again.
C30KeyDownIdempotent ==
    [][\A t \in Traps :
          (HandleKeyDown(t) /\ ~Current.capture)
              => LET once == Settle([focused |-> focused, timers |-> timers,
                                      last_focus |-> last_focus], MaxSettle)
                     twice == Settle([focused |-> focused', timers |-> timers',
                                       last_focus |-> last_focus'], MaxSettle)
                 IN /\ <<is_activated, last_focus, return_element, listeners, hooks>>'
                          = <<is_activated, last_focus, return_element, listeners, hooks>>
                    /\ ev'.prevented = ev.prevented
                    /\ once.drained /\ twice.drained
                    /\ twice.focused = once.focused
                    /\ twice.last_focus = once.last_focus]_vars

\* A Tab on the last candidate of the target has been delivered twice: the
\* same focus callback is queued twice.
C30Witness ==
    /\ ev.type = "keydown" /\ ev.key = "Tab" /\ ~ev.shift /\ ev.prevented
    /\ ev.pending = <<>>
    /\ is_activated["t1"]
    /\ Len(timers) = 2
    /\ timers[1] = timers[2]
    /\ timers[1] # focused

\* The element is an <input type="hidden">.
HiddenInput(e) == dom[e].tag = "input" /\ dom[e].type = "hidden"

\* C31: is_focusable is false for every input element of type hidden; a
\* hidden input is a focus or tab candidate of no container and no focus
\* callback is scheduled for it as the Auto initial focus, even when it is
\* the first element of the target that matches the candidate selector.
C31HiddenInputExcluded ==
    /\ \A e \in Nodes :
          HiddenInput(e)
              => /\ ~is_focusable(e)
                 /\ \A container \in Nodes \ Leaves :
                       /\ e \notin Range(focus_candidates(container))
                       /\ e \notin Range(tab_candidates(container))
    /\ \A t \in Traps :
          (options[t].initial_focus = InitialFocusAuto /\ timers # <<>>)
              => ~HiddenInput(timers[Len(timers)])

\* The first element of a sequence, None for the empty sequence.
FirstOf(s) == IF s = <<>> THEN None ELSE s[1]

\* C32: for every container, first_tab_candidate is the first element of
\* tab_candidates and first_focus_candidate is the first element of
\* focus_candidates; each is None exactly when its sequence is empty. (The
\* query is made with the constant CANDIDATE_SELECTOR, which the browser
\* accepts, so the sequences are those of a query that succeeded.)
C32FirstIsFirst ==
    \A container \in Nodes :
        LET tabs == tab_candidates(container)
            focuses == focus_candidates(container)
            first_tab == first_tab_candidate(container)
            first_focus == first_focus_candidate(container)
        IN /\ first_tab = FirstOf(tabs)
           /\ first_focus = FirstOf(focuses)
           /\ first_tab = None <=> tabs = <<>>
           /\ first_focus = None <=> focuses = <<>>

\* An activated trap over a target whose query finds elements none of which
\* passes the filters, inside a container that has several candidates.
C32Witness ==
    /\ is_activated["t1"]
    /\ QuerySelectorAll("T1") # <<>>
    /\ focus_candidates("T1") = <<>>
    /\ first_focus_candidate("T1") = None
    /\ first_tab_candidate("T1") = None
    /\ Len(tab_candidates("P")) > 1
    /\ first_tab_candidate("P") = tab_candidates("P")[1]

PublishedUnlocked(event) ==
    /\ toaster'.published = <<event>>
    /\ event.handle \in DOMAIN toaster'.toasts
    /\ Len(toaster'.delivered) = Len(toaster.subscribers)
    /\ \A i \in 1..Len(toaster.subscribers) :
          /\ toaster'.delivered[i].subscriber = toaster.subscribers[i]
          /\ toaster'.delivered[i].event = event
          /\ ~toaster'.delivered[i].got.blocked
          /\ toaster'.delivered[i].got.toast = <<toaster'.toasts[event.handle]>>

\* C34: Toaster events are published after the state change, with the
\* toast-state lock released. add_toast publishes Create{handle} when the
\* toast is stored, and a dismiss_toast that returns true publishes
\* Dismiss{handle, reason} when the reason is stored; a subscriber that
\* calls Toaster::get(handle) from inside its callback gets the toast
\* without blocking, and every subscriber registered at that moment gets
\* the event exactly once, in subscription order. No call leaves the state
\* lock held.
C34PublishedAfterChange ==
    /\ [](~toaster.state_locked)
    /\ [][/\ (toaster' # toaster /\ toaster'.call.op = "add_toast")
               => /\ toaster'.call.handle = toaster.sequence
                  /\ PublishedUnlocked(CreateEvent(toaster.sequence))
          /\ (/\ toaster' # toaster
              /\ toaster'.call.op = "dismiss_toast"
              /\ toaster'.call.returned)
               => /\ PublishedUnlocked(DismissEvent(toaster'.call.handle,
                                                    toaster'.call.reason))
                  /\ toaster'.toasts[toaster'.call.handle].dismiss
                         = toaster'.call.reason]_vars

\* The second toast was added with two subscribers registered: each got
\* Create once, the earlier subscriber first, and found the toast.
C34Witness ==
    /\ toaster.call.op = "add_toast"
    /\ toaster.call.handle = 1
    /\ toaster.subscribers = <<0, 1>>
    /\ Len(toaster.delivered) = 2
    /\ toaster.delivered[1].subscriber = 0
    /\ toaster.delivered[2].subscriber = 1
    /\ toaster.delivered[2].event = CreateEvent(1)
    /\ toaster.delivered[2].got.toast = <<toaster.toasts[1]>>

\* The toast of the handle was added with a timeout that asks for a timer:
\* Duration(d), or Default on a toaster whose options have a timeout.
TimedIn(ts, handle) ==
    \/ ts.toasts[handle].timeout = "Duration"
    \/ /\ ts.toasts[handle].timeout = "Default"
       /\ ts.options.timeout # None

Timed(handle) == TimedIn(toaster, handle)

C36FormTrapCorrespondence ==
    /\ form.is_activated
          => \A i \in StageIndices : is_activated[TrapOf(i)] <=> i = form.current
    /\ ~form.is_activated
          => \A i \in StageIndices : ~is_activated[TrapOf(i)]

\* A stage change that asks for a stage the form does not have: next() at
\* the last stage, previous() at stage 0, stage(n) with n not below the
\* number of stages.
OutOfRangeChange ==
    \/ form.current = Len(Stages) - 1 /\ FormNext
    \/ form.current = 0 /\ \E overflow_checks \in BOOLEAN : FormPrevious(overflow_checks)
    \/ FormStage(Len(Stages))

\* C37: the stage index stays in range. next() at the last stage,
\* previous() at stage 0 and stage(n) with n not below the number of stages
\* do not fail; they leave current below the number of stages and, on an
\* activated form, the trap of the current stage activated.
C37StageIndexInRange ==
    [][OutOfRangeChange
          => /\ ~form'.panicked
             /\ form'.current \in StageIndices
             /\ form.is_activated => is_activated'[TrapOf(form'.current)]]_vars

\* C38: a toast is dismissed at most once. Once the dismiss field of a
\* toast holds a reason, no later call changes the reason and no later call
\* publishes a Dismiss event of its handle.
C38DismissedOnce ==
    [][\A handle \in DOMAIN toaster.toasts :
          (toaster' # toaster /\ toaster.toasts[handle].dismiss # None)
              => /\ toaster'.toasts[handle].dismiss = toaster.toasts[handle].dismiss
                 /\ \A reason \in DismissReasons :
                       DismissEvent(handle, reason) \notin Range(toaster'.published)]_vars

\* C39: a Tab inside the sequence is left to the host. When the target of
\* the trap has at least one tab candidate and the target of a Tab keydown
\* is not the last of them (Tab) or not the first of them (Shift+Tab), the
\* keydown handler of the trap neither prevents the default nor schedules a
\* focus, and it leaves is_activated, last_focus, the return element, the
\* listeners and the hooks as they are.
C39TabInsideLeftToHost ==
    [][\A t \in Traps :
          LET container_tab_candidates == tab_candidates(options[t].target)
          IN (/\ HandleKeyDown(t)
              /\ ev.key = "Tab"
              /\ container_tab_candidates # <<>>
              /\ ev.target # (IF ev.shift THEN Head(container_tab_candidates)
                              ELSE Last(container_tab_candidates)))
                 => /\ ev'.prevented = ev.prevented
                    /\ ev'.stopped = ev.stopped
                    /\ timers' = timers
                    /\ <<is_activated, last_focus, return_element, listeners, hooks>>'
                          = <<is_activated, last_focus, return_element, listeners, hooks>>]_vars

\* A Tab on a, the first of the two candidates of the target of an
\* activated trap, has been delivered to every listener: its default is not
\* prevented and nothing is scheduled.
C39Witness ==
    /\ is_activated["t1"]
    /\ tab_candidates(options["t1"].target) = <<"a", "b">>
    /\ ev.type = "keydown" /\ ev.key = "Tab" /\ ~ev.shift
    /\ ev.target = "a"
    /\ ev.pending = <<>>
    /\ ~ev.prevented
    /\ timers = <<>>

\* C40: last_focus survives deactivation. No step that activates or
\* deactivates a trap changes its last_focus, and last_focus changes in the
\* focusin handler only; so a focusin that escapes the target of a trap
\* that was deactivated and activated again, before any focusin inside the
\* target, schedules a focus on the element recorded during the earlier
\* activation.
C40LastFocusSurvives ==
    [][/\ \A t \in Traps :
             is_activated'[t] # is_activated[t] => last_focus'[t] = last_focus[t]
       /\ last_focus' # last_focus => \E t \in Traps : HandleFocusIn(t)
       /\ \A t \in Traps :
             (/\ HandleFocusIn(t)
              /\ target(ev) # None
              /\ ~Contains(options[t].target, target(ev))
              /\ last_focus[t] # None)
                 => /\ timers' = schedule_focus(timers, last_focus[t])
                    /\ last_focus' = last_focus]_vars

\* A trap whose last_focus is b was deactivated, the focus went back to z,
\* and the trap was activated again with the focus on z: last_focus is
\* still b, and the only callback pending is the initial focus on a.
C40Witness ==
    /\ is_activated["t1"]
    /\ options["t1"].scope = "body"
    /\ options["t1"].target = "T1"
    /\ ev = NoEvent
    /\ last_focus["t1"] = "b"
    /\ focused = "z"
    /\ return_element["t1"] = "z"
    /\ timers = <<"a">>

====
